---- MODULE Spec2Model ----
(***************************************************************************)
(* A model of the tool-calling conversation loop of mcp-server/chat.py:    *)
(* execute_tool, _truncate_result and the chat() coroutine.                *)
(*                                                                         *)
(* Python str values are TLA+ strings (Len, \o and SubSeq act on them).    *)
(* JSON-serialisable Python values are tagged records:                     *)
(*   None  [t |-> "null"]            bool  [t |-> "bool", b |-> ...]       *)
(*   int   [t |-> "int", n |-> ...]  str   [t |-> "str", s |-> ...]        *)
(*   list  [t |-> "list", items |-> <<...>>]                               *)
(*   dict  [t |-> "dict", keys |-> <<...>>, vals |-> <<...>>]              *)
(* A dict keeps its keys in insertion order, as json.dumps writes them.    *)
(***************************************************************************)
EXTENDS Integers, Sequences, FiniteSets, TLC

VARIABLES
    pc,               \* where chat() stands: AwaitingModel, ExecutingTools, Done, Raised
    history,          \* the caller's history argument
    messages,         \* chat.py:515 the transcript sent to the model
    tool_calls_made,  \* chat.py:528 the ToolCallRecords of the turn
    response,         \* the last completion response (choices[0])
    idx,              \* position of the for loop of chat.py:576 in response.tool_calls
    outcome,          \* the dict chat() returned, None before
    exc,              \* the exception that left chat(), None before
    requests,         \* number of completions.create calls made
    tool_rounds,      \* number of responses that asked for tools without "stop"
    requested,        \* the tool calls of those responses, in the order listed
    execLog,          \* one entry per execute_tool invocation made by chat()
    execResult        \* the last call of a function other than chat(), and what it gave

vars == <<pc, history, messages, tool_calls_made, response, idx, outcome, exc,
          requests, tool_rounds, requested, execLog, execResult>>

chatVars == <<pc, history, messages, tool_calls_made, response, idx, outcome, exc,
              requests, tool_rounds, requested, execLog>>

----
\* Bounds of the model.

\* Tool calls one response may list.
MaxCallsPerRound == 2

\* Tool calls listed over the whole turn (in responses that are not final).
MaxToolCalls == 2

\* Length of the long strings (an over-long tool name, an over-long field).
LongLen == 8100

----
\* JSON values.

None == [t |-> "null"]
JBool(b) == [t |-> "bool", b |-> b]
JInt(n) == [t |-> "int", n |-> n]
JStr(s) == [t |-> "str", s |-> s]
JList(items) == [t |-> "list", items |-> items]
JDict(keys, vals) == [t |-> "dict", keys |-> keys, vals |-> vals]

EmptyDict == JDict(<<>>, <<>>)

\* isinstance(v, dict), isinstance(v, list)
IsDict(v) == v.t = "dict"
IsList(v) == v.t = "list"

\* key in d
HasKey(d, k) == \E j \in DOMAIN d.keys : d.keys[j] = k

\* d[k]
Get(d, k) == d.vals[CHOOSE j \in DOMAIN d.keys : d.keys[j] = k]

\* {**d, k: v}: replaces the value in place, or adds the key at the end
DictSet(d, k, v) ==
    IF HasKey(d, k)
    THEN JDict(d.keys, [j \in DOMAIN d.vals |-> IF d.keys[j] = k THEN v ELSE d.vals[j]])
    ELSE JDict(Append(d.keys, k), Append(d.vals, v))

\* s * n
RECURSIVE Rep(_, _)
Rep(s, n) ==
    IF n = 0 THEN ""
    ELSE LET h == Rep(s, n \div 2)
         IN  IF n % 2 = 0 THEN h \o h ELSE h \o h \o s

\* s[:k] of Python: a negative k counts from the end
PyPrefix(s, k) ==
    LET n == IF k >= 0 THEN (IF k < Len(s) THEN k ELSE Len(s))
                       ELSE (IF Len(s) + k > 0 THEN Len(s) + k ELSE 0)
    IN  IF n = 0 THEN "" ELSE SubSeq(s, 1, n)

\* json.dumps(v) with the default separators. The strings of the model hold
\* no character that json.dumps escapes.
RECURSIVE json_dumps(_)
json_dumps(v) ==
    LET RECURSIVE Items(_, _)
        Items(xs, j) ==
            IF j > Len(xs) THEN ""
            ELSE (IF j > 1 THEN ", " ELSE "") \o json_dumps(xs[j]) \o Items(xs, j + 1)
        RECURSIVE Pairs(_, _)
        Pairs(d, j) ==
            IF j > Len(d.keys) THEN ""
            ELSE (IF j > 1 THEN ", " ELSE "") \o "\"" \o d.keys[j] \o "\": "
                 \o json_dumps(d.vals[j]) \o Pairs(d, j + 1)
    IN  CASE v.t = "null" -> "null"
          [] v.t = "bool" -> (IF v.b THEN "true" ELSE "false")
          [] v.t = "int"  -> ToString(v.n)
          [] v.t = "str"  -> "\"" \o v.s \o "\""
          [] v.t = "list" -> "[" \o Items(v.items, 1) \o "]"
          [] v.t = "dict" -> "{" \o Pairs(v, 1) \o "}"

----
\* The tool registry.

MAX_TOOL_RESULT_LENGTH == 8000
MAX_HISTORY_MESSAGES == 20

TOOL_NAMES ==
    << "get_api_info", "get_schema", "list_assets", "get_asset", "create_asset",
       "update_asset", "delete_asset", "list_logs", "get_log", "create_log",
       "create_harvest_log", "update_log", "list_locations", "get_location",
       "create_location", "update_location", "list_predicates", "get_predicate",
       "list_facts", "get_fact", "create_fact", "list_quantities", "create_quantity",
       "move_asset", "record_observation", "get_farm_summary", "list_tasks",
       "get_task", "create_task", "update_task", "delete_task", "complete_task",
       "get_my_tasks", "get_overdue_tasks", "get_blocked_tasks", "move_task_to_plan",
       "schedule_task_to_cycle", "list_plans", "get_plan", "get_plan_children",
       "create_plan", "update_plan", "delete_plan", "list_cycles", "get_cycle",
       "get_current_cycle", "create_cycle", "generate_cycles", "update_cycle",
       "delete_cycle", "add_task_blocker", "remove_task_blocker", "get_task_blockers",
       "get_tasks_blocked_by", "add_related_task", "mark_task_duplicate" >>

\* name in TOOL_NAMES
InToolNames(name) == \E j \in DOMAIN TOOL_NAMES : TOOL_NAMES[j] = name

\* The drawing tools chat.py defines and leaves out of TOOL_NAMES.
DrawingTools ==
    { "start_drawing", "add_feature", "select_feature", "update_feature",
      "delete_feature", "clear_features", "get_features" }

\* The other callables chat.py defines.
ModuleFunctions ==
    { "_get_client", "_get_tool_function", "_get_type_for_annotation",
      "_function_to_openai_tool", "get_tool_definitions", "execute_tool",
      "_truncate_result", "chat" }

\* The names getattr(_current_module, name) resolves to a callable: the tools
\* imported from main, and the functions of chat.py itself.
ModuleCallables ==
    { TOOL_NAMES[j] : j \in DOMAIN TOOL_NAMES } \cup DrawingTools \cup ModuleFunctions

\* _get_tool_function(name): the callable bound to the name, or AttributeError.
_get_tool_function(name) ==
    IF name \in ModuleCallables
    THEN [found |-> TRUE, func |-> name, error |-> ""]
    ELSE [found |-> FALSE, func |-> "",
          error |-> "module 'chat' has no attribute '" \o name \o "'"]

\* The parameters of the callables: those without a default value, then those
\* with one, in the order declared (main.py for the tools of TOOL_NAMES,
\* chat.py:166-309 for the drawing tools, chat.py for its own functions).
Signature(func) ==
    LET Sig(required, optional) == [required |-> required, optional |-> optional]
    IN  CASE func = "get_api_info" -> Sig(<<>>, <<>>)
          [] func = "get_schema" -> Sig(<<>>, <<>>)
          [] func = "list_assets" ->
                Sig(<<"asset_type">>,
                    <<"status", "page", "per_page">>)
          [] func = "get_asset" -> Sig(<<"asset_type", "asset_id">>, <<>>)
          [] func = "create_asset" ->
                Sig(<<"asset_type", "name">>,
                    <<"status", "notes", "quantity", "current_location_id", "parent_id", "geometry">>)
          [] func = "update_asset" ->
                Sig(<<"asset_type", "asset_id">>,
                    <<"name", "status", "notes", "quantity", "current_location_id">>)
          [] func = "delete_asset" -> Sig(<<"asset_type", "asset_id">>, <<>>)
          [] func = "list_logs" -> Sig(<<"log_type">>, <<"status", "page", "per_page">>)
          [] func = "get_log" -> Sig(<<"log_type", "log_id">>, <<>>)
          [] func = "create_log" ->
                Sig(<<"log_type", "name">>,
                    <<"status", "notes", "timestamp", "asset_ids", "from_location_id", "to_location_id">>)
          [] func = "create_harvest_log" ->
                Sig(<<"name", "quantity_value", "quantity_unit">>,
                    <<"asset_ids", "notes", "timestamp">>)
          [] func = "update_log" ->
                Sig(<<"log_type", "log_id">>,
                    <<"name", "status", "notes">>)
          [] func = "list_locations" -> Sig(<<>>, <<"page", "per_page">>)
          [] func = "get_location" -> Sig(<<"location_id">>, <<>>)
          [] func = "create_location" ->
                Sig(<<"name">>,
                    <<"location_type", "geometry", "notes", "parent_id">>)
          [] func = "update_location" ->
                Sig(<<"location_id">>,
                    <<"name", "geometry", "notes", "parent_id">>)
          [] func = "list_predicates" -> Sig(<<>>, <<>>)
          [] func = "get_predicate" -> Sig(<<"predicate_id">>, <<>>)
          [] func = "list_facts" ->
                Sig(<<>>,
                    <<"subject_id", "predicate_name", "page", "per_page">>)
          [] func = "get_fact" -> Sig(<<"fact_id">>, <<>>)
          [] func = "create_fact" ->
                Sig(<<"subject_id", "predicate_name">>,
                    <<"value_numeric", "unit", "object_id", "observed_at", "log_id">>)
          [] func = "list_quantities" -> Sig(<<>>, <<"log_id">>)
          [] func = "create_quantity" ->
                Sig(<<"log_id", "value", "unit">>,
                    <<"quantity_type", "label", "measure">>)
          [] func = "move_asset" ->
                Sig(<<"asset_id", "to_location_id">>,
                    <<"asset_type", "from_location_id", "notes">>)
          [] func = "record_observation" ->
                Sig(<<"asset_id", "predicate_name", "value">>,
                    <<"unit", "notes">>)
          [] func = "get_farm_summary" -> Sig(<<>>, <<>>)
          [] func = "list_tasks" ->
                Sig(<<>>,
                    <<"state", "plan_id", "cycle_id", "parent_id", "unscheduled", "active", "completed", "blocked", "overdue", "page", "per_page">>)
          [] func = "get_task" -> Sig(<<"task_id">>, <<>>)
          [] func = "create_task" ->
                Sig(<<"title", "plan_id">>,
                    <<"description", "state", "estimate", "target_date", "cycle_id", "parent_id", "asset_ids", "location_ids", "tag_ids">>)
          [] func = "update_task" ->
                Sig(<<"task_id">>,
                    <<"title", "description", "state", "estimate", "target_date", "plan_id", "cycle_id", "parent_id", "tag_ids">>)
          [] func = "delete_task" -> Sig(<<"task_id">>, <<>>)
          [] func = "complete_task" -> Sig(<<"task_id">>, <<>>)
          [] func = "get_my_tasks" -> Sig(<<>>, <<"cycle_id">>)
          [] func = "get_overdue_tasks" -> Sig(<<>>, <<>>)
          [] func = "get_blocked_tasks" -> Sig(<<>>, <<>>)
          [] func = "move_task_to_plan" -> Sig(<<"task_id", "plan_id">>, <<>>)
          [] func = "schedule_task_to_cycle" -> Sig(<<"task_id">>, <<"cycle_id">>)
          [] func = "list_plans" ->
                Sig(<<>>,
                    <<"status", "in_progress", "root_only", "parent_id", "page", "per_page">>)
          [] func = "get_plan" -> Sig(<<"plan_id">>, <<>>)
          [] func = "get_plan_children" -> Sig(<<"plan_id">>, <<>>)
          [] func = "create_plan" ->
                Sig(<<"name">>,
                    <<"description", "status", "start_date", "target_date", "parent_id">>)
          [] func = "update_plan" ->
                Sig(<<"plan_id">>,
                    <<"name", "description", "status", "start_date", "target_date", "parent_id">>)
          [] func = "delete_plan" -> Sig(<<"plan_id">>, <<>>)
          [] func = "list_cycles" ->
                Sig(<<>>,
                    <<"current", "past", "future", "page", "per_page">>)
          [] func = "get_cycle" -> Sig(<<"cycle_id">>, <<>>)
          [] func = "get_current_cycle" -> Sig(<<>>, <<>>)
          [] func = "create_cycle" -> Sig(<<"name", "start_date", "end_date">>, <<>>)
          [] func = "generate_cycles" ->
                Sig(<<"start_date", "count">>,
                    <<"duration_days">>)
          [] func = "update_cycle" ->
                Sig(<<"cycle_id">>,
                    <<"name", "start_date", "end_date">>)
          [] func = "delete_cycle" -> Sig(<<"cycle_id">>, <<>>)
          [] func = "add_task_blocker" -> Sig(<<"task_id", "blocked_by_task_id">>, <<>>)
          [] func = "remove_task_blocker" -> Sig(<<"task_id", "blocked_by_task_id">>, <<>>)
          [] func = "get_task_blockers" -> Sig(<<"task_id">>, <<>>)
          [] func = "get_tasks_blocked_by" -> Sig(<<"task_id">>, <<>>)
          [] func = "add_related_task" -> Sig(<<"task_id", "related_task_id">>, <<>>)
          [] func = "mark_task_duplicate" ->
                Sig(<<"task_id", "duplicate_of_task_id">>,
                    <<>>)
          [] func = "start_drawing" -> Sig(<<"mode">>, <<>>)
          [] func = "add_feature" -> Sig(<<"feature">>, <<"auto_select", "properties">>)
          [] func = "select_feature" -> Sig(<<"feature_id">>, <<>>)
          [] func = "update_feature" -> Sig(<<"feature_id">>, <<"properties", "geometry">>)
          [] func = "delete_feature" -> Sig(<<"feature_id">>, <<>>)
          [] func = "clear_features" -> Sig(<<>>, <<>>)
          [] func = "get_features" -> Sig(<<>>, <<>>)
          [] func = "_get_client" -> Sig(<<>>, <<>>)
          [] func = "_get_tool_function" -> Sig(<<"name">>, <<>>)
          [] func = "_get_type_for_annotation" -> Sig(<<"annotation">>, <<>>)
          [] func = "_function_to_openai_tool" -> Sig(<<"name", "func">>, <<>>)
          [] func = "get_tool_definitions" -> Sig(<<>>, <<>>)
          [] func = "execute_tool" -> Sig(<<"name", "arguments">>, <<>>)
          [] func = "_truncate_result" -> Sig(<<"result">>, <<"max_length">>)
          [] func = "chat" -> Sig(<<"message">>, <<"history", "context">>)

\* The annotations of the parameters, in the order declared ("empty" for a
\* parameter without one): main.py for the tools of TOOL_NAMES, chat.py:166-309
\* for the drawing tools, chat.py for its own functions.
Annotations(func) ==
    CASE func \in { "get_api_info", "get_schema", "list_predicates",
                     "get_farm_summary", "get_overdue_tasks",
                     "get_blocked_tasks", "get_current_cycle",
                     "clear_features", "get_features" } ->
                <<>>
      [] func \in { "list_assets", "list_logs" } ->
                <<"str", "str", "int", "int">>
      [] func \in { "get_asset", "delete_asset", "get_log" } ->
                <<"str", "int">>
      [] func \in { "create_asset" } ->
                <<"str", "str", "str", "str", "int", "int", "int", "list">>
      [] func \in { "update_asset" } ->
                <<"str", "int", "str", "str", "str", "int", "int">>
      [] func \in { "create_log" } ->
                <<"str", "str", "str", "str", "str", "list", "int", "int">>
      [] func \in { "create_harvest_log" } ->
                <<"str", "float", "str", "list", "str", "str">>
      [] func \in { "update_log" } ->
                <<"str", "int", "str", "str", "str">>
      [] func \in { "list_locations", "move_task_to_plan",
                     "schedule_task_to_cycle", "add_task_blocker",
                     "remove_task_blocker", "add_related_task",
                     "mark_task_duplicate" } ->
                <<"int", "int">>
      [] func \in { "get_location", "list_quantities", "get_task",
                     "delete_task", "complete_task", "get_my_tasks",
                     "get_plan", "get_plan_children", "delete_plan",
                     "get_cycle", "delete_cycle", "get_task_blockers",
                     "get_tasks_blocked_by" } ->
                <<"int">>
      [] func \in { "create_location" } ->
                <<"str", "str", "list", "str", "int">>
      [] func \in { "update_location" } ->
                <<"int", "str", "list", "str", "int">>
      [] func \in { "get_predicate", "get_fact", "start_drawing",
                     "select_feature", "delete_feature" } ->
                <<"str">>
      [] func \in { "list_facts" } ->
                <<"int", "str", "int", "int">>
      [] func \in { "create_fact" } ->
                <<"int", "str", "float", "str", "int", "str", "int">>
      [] func \in { "create_quantity" } ->
                <<"int", "float", "str", "str", "str", "str">>
      [] func \in { "move_asset" } ->
                <<"int", "int", "str", "int", "str">>
      [] func \in { "record_observation" } ->
                <<"int", "str", "float", "str", "str">>
      [] func \in { "list_tasks" } ->
                <<"str", "int", "int", "int", "bool", "bool", "bool", "bool", "bool",
                  "int", "int">>
      [] func \in { "create_task" } ->
                <<"str", "int", "str", "str", "int", "str", "int", "int", "list",
                  "list", "list">>
      [] func \in { "update_task" } ->
                <<"int", "str", "str", "str", "int", "str", "int", "int", "int",
                  "list">>
      [] func \in { "list_plans" } ->
                <<"str", "bool", "bool", "int", "int", "int">>
      [] func \in { "create_plan" } ->
                <<"str", "str", "str", "str", "str", "int">>
      [] func \in { "update_plan" } ->
                <<"int", "str", "str", "str", "str", "str", "int">>
      [] func \in { "list_cycles" } ->
                <<"bool", "bool", "bool", "int", "int">>
      [] func \in { "create_cycle" } ->
                <<"str", "str", "str">>
      [] func \in { "generate_cycles" } ->
                <<"str", "int", "int">>
      [] func \in { "update_cycle" } ->
                <<"int", "str", "str", "str">>
      [] func \in { "add_feature" } ->
                <<"dict", "bool", "dict">>
      [] func \in { "update_feature" } ->
                <<"str", "dict", "dict">>
      [] func \in { "_get_client", "get_tool_definitions" } ->
                <<>>
      [] func \in { "_get_tool_function" } ->
                <<"str">>
      [] func \in { "_get_type_for_annotation" } ->
                <<"empty">>
      [] func \in { "_function_to_openai_tool" } ->
                <<"str", "empty">>
      [] func \in { "execute_tool" } ->
                <<"str", "dict">>
      [] func \in { "_truncate_result" } ->
                <<"Any", "int">>
      [] func \in { "chat" } ->
                <<"str", "Optional[list[dict]]", "Optional[dict]">>

\* inspect.signature(func).parameters: the names in the order declared. A
\* parameter without a default value cannot follow one that has a default.
Parameters(func) == Signature(func).required \o Signature(func).optional

\* The test of chat.py:410 answered yes for every parameter.
HasNoDefault_always(func, param_name) == TRUE

\* chat.py:410: param.default == inspect.Parameter.empty
HasNoDefault(func, param_name) ==
    \E j \in DOMAIN Signature(func).required : Signature(func).required[j] = param_name

\* A mapping that takes an annotation it does not know for an object.
_get_type_for_annotation_default_object(annotation) ==
    CASE annotation = "int" -> "integer"
      [] annotation = "float" -> "number"
      [] annotation = "bool" -> "boolean"
      [] annotation = "str" -> "string"
      [] annotation = "list" -> "array"
      [] annotation = "dict" -> "object"
      [] OTHER -> "object"

\* chat.py:349-364
_get_type_for_annotation(annotation) ==
    CASE annotation = "int" -> "integer"
      [] annotation = "float" -> "number"
      [] annotation = "bool" -> "boolean"
      [] annotation = "str" -> "string"
      [] annotation = "list" -> "array"
      [] annotation = "dict" -> "object"
      [] OTHER -> "string"

\* chat.py:394-405: the schema of one parameter, without its description
\* (the texts of the docstrings are not carried).
PropSchema(annotation) ==
    LET param_type == IF annotation # "empty"
                      THEN _get_type_for_annotation(annotation) ELSE "string"
    IN  IF param_type = "array"
        THEN [type |-> param_type, items |-> [type |-> "object"]]
        ELSE [type |-> param_type]

\* chat.py:422-433: the tool built from the properties and the required list
\* (properties as the sequence of its items, in insertion order).
OpenAITool(name, properties, required) ==
    [type |-> "function",
     function |-> [name |-> name,
                   parameters |-> [type |-> "object",
                                   properties |-> properties,
                                   required |-> required]]]

\* The tools of TOOL_NAMES the farm API's answers are modelled for.
ModelledTools == { "get_farm_summary", "list_assets", "get_asset", "list_locations" }

\* func.__module__
ModuleOf(func) == IF func \in DrawingTools \cup ModuleFunctions THEN "chat" ELSE "main"

Elems(seq) == { seq[j] : j \in DOMAIN seq }

\* type(v).__name__
TypeName(v) ==
    CASE v.t = "null" -> "NoneType"
      [] v.t = "bool" -> "bool"
      [] v.t = "int"  -> "int"
      [] v.t = "str"  -> "str"
      [] v.t = "list" -> "list"
      [] v.t = "dict" -> "dict"

\* The TypeError of func(**arguments) when the call cannot be bound, "" when
\* it can: arguments is no mapping, names a parameter func does not have, or
\* leaves out one that has no default value.
BindError(func, arguments) ==
    LET sig == Signature(func)
        params == Elems(sig.required) \cup Elems(sig.optional)
        unexpected == { j \in DOMAIN arguments.keys : arguments.keys[j] \notin params }
        missing == { j \in DOMAIN sig.required : ~HasKey(arguments, sig.required[j]) }
        firstU == CHOOSE j \in unexpected : \A k \in unexpected : j <= k
        firstM == CHOOSE j \in missing : \A k \in missing : j <= k
    IN  IF ~IsDict(arguments)
        THEN ModuleOf(func) \o "." \o func \o "() argument after ** must be a mapping, not "
             \o TypeName(arguments)
        ELSE IF unexpected # {}
        THEN func \o "() got an unexpected keyword argument '"
             \o arguments.keys[firstU] \o "'"
        ELSE IF missing # {}
        THEN func \o "() missing " \o ToString(Cardinality(missing))
             \o " required positional argument"
             \o (IF Cardinality(missing) > 1 THEN "s" ELSE "") \o ": '"
             \o sig.required[firstM] \o "'"
        ELSE ""

\* What a bound call does is the callable's business (it talks to the farm
\* API): a behaviour is the value it returns or the text of the exception it
\* raises.
Returns(value) == [raises |-> FALSE, value |-> value, error |-> ""]
Raises(error) == [raises |-> TRUE, value |-> None, error |-> error]

\* The effect of one execute_tool call: whether it raised and str(e), the
\* value it returned, the names it looked up, the callables it invoked.
Effect(raised, error, value, lookups, invoked) ==
    [raised |-> raised, error |-> error, value |-> value,
     lookups |-> lookups, invoked |-> invoked]

\* execute_tool without the test of chat.py:458, leaving an unknown name to the
\* lookup.
execute_tool_lookup_only(name, arguments, behaviour) ==
    LET f == _get_tool_function(name)
        bindError == BindError(f.func, arguments)
    IN  IF ~f.found
        THEN Effect(TRUE, f.error, None, <<name>>, <<>>)
        ELSE IF bindError # ""
        THEN Effect(TRUE, bindError, None, <<name>>, <<>>)
        ELSE IF behaviour.raises
        THEN Effect(TRUE, behaviour.error, None, <<name>>,
                    << [func |-> f.func, kwargs |-> arguments] >>)
        ELSE Effect(FALSE, "", behaviour.value, <<name>>,
                    << [func |-> f.func, kwargs |-> arguments] >>)

\* execute_tool with a handler around the call that turns the callable's
\* exception into a returned error object.
execute_tool_catching(name, arguments, behaviour) ==
    IF ~InToolNames(name)
    THEN Effect(TRUE, "Unknown tool: " \o name, None, <<>>, <<>>)
    ELSE LET f == _get_tool_function(name)
             bindError == BindError(f.func, arguments)
         IN  IF ~f.found
             THEN Effect(TRUE, f.error, None, <<name>>, <<>>)
             ELSE IF bindError # ""
             THEN Effect(TRUE, bindError, None, <<name>>, <<>>)
             ELSE IF behaviour.raises
             THEN Effect(FALSE, "", JDict(<<"error">>, <<JStr(behaviour.error)>>), <<name>>,
                         << [func |-> f.func, kwargs |-> arguments] >>)
             ELSE Effect(FALSE, "", behaviour.value, <<name>>,
                         << [func |-> f.func, kwargs |-> arguments] >>)

\* chat.py:445-462
execute_tool(name, arguments, behaviour) ==
    IF ~InToolNames(name)
    THEN Effect(TRUE, "Unknown tool: " \o name, None, <<>>, <<>>)
    ELSE LET f == _get_tool_function(name)
             bindError == BindError(f.func, arguments)
         IN  IF ~f.found
             THEN Effect(TRUE, f.error, None, <<name>>, <<>>)
             ELSE IF bindError # ""
             THEN Effect(TRUE, bindError, None, <<name>>, <<>>)
             ELSE IF behaviour.raises
             THEN Effect(TRUE, behaviour.error, None, <<name>>,
                         << [func |-> f.func, kwargs |-> arguments] >>)
             ELSE Effect(FALSE, "", behaviour.value, <<name>>,
                         << [func |-> f.func, kwargs |-> arguments] >>)

\* The marker of the fallback truncation (chat.py:493).
TruncationMarker == "... [TRUNCATED - result too large]\"}"

\* _truncate_result that looks for the data list before it measures the
\* encoding.
_truncate_result_slicing_first(result, max_length) ==
    LET result_str == json_dumps(result)
        data == Get(result, "data")
        truncated ==
            DictSet(DictSet(result, "data", JList(SubSeq(data.items, 1, 5))),
                    "_truncated",
                    JStr("Showing 5 of " \o ToString(Len(data.items))
                         \o " items. Use more specific filters to see more."))
    IN  IF IsDict(result) /\ HasKey(result, "data")
                /\ IsList(data) /\ Len(data.items) > 5
        THEN json_dumps(truncated)
        ELSE IF Len(result_str) <= max_length
        THEN result_str
        ELSE PyPrefix(result_str, max_length - 100) \o TruncationMarker

\* _truncate_result that builds the shortened copy from the data list alone.
_truncate_result_data_only(result, max_length) ==
    LET result_str == json_dumps(result)
        data == Get(result, "data")
        truncated ==
            JDict(<<"data", "_truncated">>,
                  << JList(SubSeq(data.items, 1, 5)),
                     JStr("Showing 5 of " \o ToString(Len(data.items))
                          \o " items. Use more specific filters to see more.") >>)
    IN  IF Len(result_str) <= max_length
        THEN result_str
        ELSE IF IsDict(result) /\ HasKey(result, "data")
                /\ IsList(data) /\ Len(data.items) > 5
        THEN json_dumps(truncated)
        ELSE PyPrefix(result_str, max_length - 100) \o TruncationMarker

\* chat.py:465-493
_truncate_result(result, max_length) ==
    LET result_str == json_dumps(result)
        data == Get(result, "data")
        truncated ==
            DictSet(DictSet(result, "data", JList(SubSeq(data.items, 1, 5))),
                    "_truncated",
                    JStr("Showing 5 of " \o ToString(Len(data.items))
                         \o " items. Use more specific filters to see more."))
    IN  IF Len(result_str) <= max_length
        THEN result_str
        ELSE IF IsDict(result) /\ HasKey(result, "data")
                /\ IsList(data) /\ Len(data.items) > 5
        THEN json_dumps(truncated)
        ELSE PyPrefix(result_str, max_length - 100) \o TruncationMarker

----
\* What the collaborators of chat() may do: the payloads and tool calls the
\* language model may send, and what the farm tools may return or raise.

\* The JSON documents the model's argument payloads encode.
JsonDocs ==
    { EmptyDict,
      JDict(<<"asset_type">>, <<JStr("animal")>>),
      JDict(<<"mode">>, <<JStr("polygon")>>),
      JList(<<>>),
      None }

\* The one payload of the model that is no JSON document.
BadPayload == ""

\* json.loads(s) on the payloads of the model: the document s encodes, or
\* the JSONDecodeError.
json_loads(s) ==
    IF \E v \in JsonDocs : json_dumps(v) = s
    THEN [ok |-> TRUE, value |-> CHOOSE v \in JsonDocs : json_dumps(v) = s, error |-> ""]
    ELSE [ok |-> FALSE, value |-> None,
          error |-> "Expecting value: line 1 column 1 (char 0)"]

\* A tool name longer than MAX_TOOL_RESULT_LENGTH.
LongName == Rep("x", LongLen)

\* The (name, arguments) pairs the model may ask for.
ToolCallChoices ==
    { <<"get_farm_summary", "{}">>,
      <<"list_assets", "{\"asset_type\": \"animal\"}">>,
      <<"list_assets", "[]">>,
      <<"get_farm_summary", "null">>,
      <<"get_farm_summary", BadPayload>>,
      <<"nonexistent_tool", "{}">>,
      <<"nonexistent_tool", BadPayload>>,
      <<"start_drawing", "{\"mode\": \"polygon\"}">>,
      <<"start_drawing", BadPayload>>,
      <<LongName, "{}">> }

\* Results of get_farm_summary (main.py:878-920): a small summary, and one
\* whose encoding is longer than MAX_TOOL_RESULT_LENGTH.
SmallSummary == JDict(<<"success", "summary">>, <<JBool(TRUE), EmptyDict>>)
BigSummary ==
    JDict(<<"success", "summary">>,
          <<JBool(TRUE),
            JDict(<<"animal_count", "animals">>,
                  <<JInt(1),
                    JList(<< JDict(<<"id", "name", "status">>,
                                   <<JInt(1), JStr(Rep("x", LongLen)), JStr("active")>>) >>)>>)>>)

\* Results of _api_call (main.py:51-88): a failure, and a success whose
\* data is a list of 6 items and whose encoding is longer than
\* MAX_TOOL_RESULT_LENGTH, also when cut to 5 items.
TimedOut == JDict(<<"success", "error">>, <<JBool(FALSE), JStr("Request timed out")>>)
ApiList(n, itemLen) ==
    JDict(<<"success", "data", "status_code">>,
          <<JBool(TRUE), JList([j \in 1..n |-> JStr(Rep("x", itemLen))]), JInt(200)>>)
List6 == ApiList(6, LongLen \div 4)

\* What a bound call of the callable may do.
Behaviours(func) ==
    CASE func = "get_farm_summary" ->
            { Returns(SmallSummary), Returns(BigSummary), Raises("'attributes'") }
      [] func \in { "list_assets", "get_asset", "list_locations" } ->
            { Returns(TimedOut), Returns(List6) }
      [] OTHER -> { Returns(JDict(<<"status">>, <<JStr("ok")>>)) }

\* The history and the message of the caller.
UserMessage == "What's on my farm?"
HistoryChoices ==
    { <<>>,
      << [role |-> "user", content |-> "Hello"],
         [role |-> "assistant", content |-> "Hello! I can help you manage your farm."] >> }

\* The texts a response may carry.
FinalTexts == { None, JStr("Your farm has 5 animals and 3 locations.") }
RoundTexts == { None, JStr("Let me check.") }

\* The tool calls of a response: n of ToolCallChoices, with the ids
\* call_<k+1> .. call_<k+n> after k calls listed before in the turn.
ToolCallObject(k, choice) ==
    [id |-> "call_" \o ToString(k),
     function |-> [name |-> choice[1], arguments |-> choice[2]]]
ToolCallLists(k, n) ==
    UNION { { [j \in 1..m |-> ToolCallObject(k + j, cs[j])] :
                cs \in [1..m -> ToolCallChoices] } : m \in 1..n }

Min(a, b) == IF a < b THEN a ELSE b

\* The responses the model may give after k tool calls listed in the turn:
\* choices[0].message.content, .tool_calls (None and [] are both <<>>) and
\* choices[0].finish_reason.
Response(content, tool_calls, finish_reason) ==
    [content |-> content, tool_calls |-> tool_calls, finish_reason |-> finish_reason]
Responses(k) ==
    LET lists == ToolCallLists(k, Min(MaxCallsPerRound, MaxToolCalls - k))
    IN  { Response(c, <<>>, f) : c \in FinalTexts, f \in {"stop", "length"} }
        \cup { Response(c, tcs, "stop") : c \in FinalTexts, tcs \in lists }
        \cup { Response(c, tcs, "tool_calls") : c \in RoundTexts, tcs \in lists }

----
\* chat(), chat.py:496-604.

SYSTEM_PROMPT == "You are a helpful farm management assistant for farmOS."

\* chat.py:509-512: the system prompt, followed by the context's introduction
\* when the caller gave a context
SystemContent(context) ==
    IF context = None THEN SYSTEM_PROMPT
    ELSE SYSTEM_PROMPT
         \o "\n\n---\n\n## Current Context\n\nThe user is asking about a specific "
         \o context.type \o ". Here is the relevant information:\n\n" \o context.data
         \o "\n\nUse this context to provide more relevant and specific answers."
         \o " You can still use tools to get additional information if needed."

\* history[:MAX_HISTORY_MESSAGES]: the oldest messages instead of the newest.
RecentHistory_oldest(h) ==
    IF Len(h) > MAX_HISTORY_MESSAGES THEN SubSeq(h, 1, MAX_HISTORY_MESSAGES) ELSE h

\* history[-MAX_HISTORY_MESSAGES:] if len(history) > MAX_HISTORY_MESSAGES else history
RecentHistory(h) ==
    IF Len(h) > MAX_HISTORY_MESSAGES
    THEN SubSeq(h, Len(h) - MAX_HISTORY_MESSAGES + 1, Len(h))
    ELSE h

\* chat.py:515-522
InitialMessages(h, message, context) ==
    << [role |-> "system", content |-> SystemContent(context)] >>
    \o RecentHistory(h)
    \o << [role |-> "user", content |-> message] >>

\* The test of chat.py:547 without its finish_reason part.
IsFinal_without_stop(resp) == resp.tool_calls = <<>>

\* chat.py:547: not assistant_message.tool_calls or finish_reason == "stop"
IsFinal(resp) == resp.tool_calls = <<>> \/ resp.finish_reason = "stop"

\* assistant_message.content or ""
ContentOrEmpty(content) == IF content = None THEN "" ELSE content.s

\* s in text, for two str values
Contains(text, s) ==
    \E j \in 1..Len(text) :
        j + Len(s) - 1 <= Len(text) /\ SubSeq(text, j, j + Len(s) - 1) = s

\* chat.py:551-552, for one record: the TypeError the statement raises, ""
\* when it raises none. 'feature' in arguments needs an iterable, and
\* arguments['feature'] a mapping.
FeatureLogError(arguments) ==
    CASE arguments.t = "dict" -> ""
      [] arguments.t = "list" ->
            IF \E j \in DOMAIN arguments.items : arguments.items[j] = JStr("feature")
            THEN "list indices must be integers or slices, not str"
            ELSE ""
      [] arguments.t = "str" ->
            IF Contains(arguments.s, "feature")
            THEN "string indices must be integers, not 'str'"
            ELSE ""
      [] OTHER -> "argument of type '" \o TypeName(arguments) \o "' is not iterable"

\* chat.py:549-552: the error of the first record the loop cannot log, "" when
\* it logs them all.
ReturnLogError(records) ==
    LET bad == { j \in DOMAIN records : FeatureLogError(records[j].arguments) # "" }
    IN  IF bad = {} THEN ""
        ELSE FeatureLogError(records[CHOOSE j \in bad : \A k \in bad : j <= k].arguments)

\* chat.py:553-556
ChatOutcome(resp, records) ==
    [message |-> ContentOrEmpty(resp.content), tool_calls |-> records]

\* chat.py:559-573
AssistantMessage(resp) ==
    [role |-> "assistant",
     content |-> resp.content,
     tool_calls |-> [j \in DOMAIN resp.tool_calls |->
                        [id |-> resp.tool_calls[j].id,
                         type |-> "function",
                         function |-> [name |-> resp.tool_calls[j].function.name,
                                       arguments |-> resp.tool_calls[j].function.arguments]]]]

\* A record that looks at the success flag of the value and reports a
\* returned failure as an error.
ToolCallRecord_inspecting_success(tool_name, tool_args, eff) ==
    IF eff.raised
    THEN [name |-> tool_name, arguments |-> tool_args, error |-> eff.error]
    ELSE IF IsDict(eff.value) /\ HasKey(eff.value, "success")
            /\ Get(eff.value, "success") = JBool(FALSE)
    THEN [name |-> tool_name, arguments |-> tool_args,
          error |-> Get(eff.value, "error").s]
    ELSE [name |-> tool_name, arguments |-> tool_args, result |-> eff.value]

\* A record that always carries both fields, as the ToolCall model of
\* http_server.py:42-47 would.
ToolCallRecord_both_fields(tool_name, tool_args, eff) ==
    [name |-> tool_name, arguments |-> tool_args,
     result |-> eff.value, error |-> eff.error]

\* A record that holds what was sent to the model: the truncated encoding.
ToolCallRecord_truncated(tool_name, tool_args, eff) ==
    IF eff.raised
    THEN [name |-> tool_name, arguments |-> tool_args, error |-> eff.error]
    ELSE [name |-> tool_name, arguments |-> tool_args,
          result |-> JStr(_truncate_result(eff.value, MAX_TOOL_RESULT_LENGTH))]

\* chat.py:585-597: the record of a call, and the result sent to the model
ToolCallRecord(tool_name, tool_args, eff) ==
    IF eff.raised
    THEN [name |-> tool_name, arguments |-> tool_args, error |-> eff.error]
    ELSE [name |-> tool_name, arguments |-> tool_args, result |-> eff.value]
ToolResult(eff) ==
    IF eff.raised THEN JDict(<<"error">>, <<JStr(eff.error)>>) ELSE eff.value

\* A tool message that correlates by the tool's name instead of the call's id.
ToolMessage_by_name(tool_call, result) ==
    [role |-> "tool",
     tool_call_id |-> tool_call.function.name,
     content |-> _truncate_result(result, MAX_TOOL_RESULT_LENGTH)]

\* chat.py:600-604
ToolMessage(tool_call, result) ==
    [role |-> "tool",
     tool_call_id |-> tool_call.id,
     content |-> _truncate_result(result, MAX_TOOL_RESULT_LENGTH)]

\* An exception leaving chat().
Exception(type, message, at) == [type |-> type, message |-> message, at |-> at]

Init ==
    /\ pc = "AwaitingModel"
    /\ history \in HistoryChoices
    /\ messages = InitialMessages(history, UserMessage, None)
    /\ tool_calls_made = <<>>
    /\ response = None
    /\ idx = 0
    /\ outcome = None
    /\ exc = None
    /\ requests = 0
    /\ tool_rounds = 0
    /\ requested = <<>>
    /\ execLog = <<>>
    /\ execResult = None

\* chat.py:536-541 when completions.create raises: chat() has no handler.
ModelRequestRaises ==
    /\ pc = "AwaitingModel"
    /\ requests' = requests + 1
    /\ pc' = "Raised"
    /\ exc' = Exception("APIError", "Connection error.", "completions.create")
    /\ UNCHANGED <<history, messages, tool_calls_made, response, idx, outcome,
                   tool_rounds, requested, execLog, execResult>>

\* A response that asks for tools and does not signal "stop".
AsksForTools(resp) == resp.tool_calls # <<>> /\ resp.finish_reason # "stop"

\* The for loop of chat.py:576 walking the list from its end.
CurrentToolCall_reversed(resp, i) == resp.tool_calls[Len(resp.tool_calls) - i + 1]

\* chat.py:576: the tool call of the i-th pass of the for loop
CurrentToolCall(resp, i) == resp.tool_calls[i]

\* chat.py:536-573: one request to the model and what chat() does with the
\* response up to the for loop. tool_rounds and requested record what the
\* model asked for, whatever chat() makes of it.
ModelRequest ==
    /\ pc = "AwaitingModel"
    /\ \E resp \in Responses(Len(requested)) :
        /\ requests' = requests + 1
        /\ response' = resp
        /\ tool_rounds' = tool_rounds + (IF AsksForTools(resp) THEN 1 ELSE 0)
        /\ requested' = requested \o (IF AsksForTools(resp) THEN resp.tool_calls ELSE <<>>)
        /\ IF IsFinal(resp)
           THEN /\ IF ReturnLogError(tool_calls_made) = ""
                   THEN /\ pc' = "Done"
                        /\ outcome' = ChatOutcome(resp, tool_calls_made)
                        /\ exc' = exc
                   ELSE /\ pc' = "Raised"
                        /\ exc' = Exception("TypeError", ReturnLogError(tool_calls_made),
                                            "chat.py:551")
                        /\ outcome' = outcome
                /\ UNCHANGED <<messages, idx>>
           ELSE /\ messages' = Append(messages, AssistantMessage(resp))
                /\ idx' = 1
                /\ pc' = "ExecutingTools"
                /\ UNCHANGED <<outcome, exc>>
    /\ UNCHANGED <<history, tool_calls_made, execLog, execResult>>

\* A message without its content: its role and the ids it carries.
Header(m) ==
    IF m.role = "tool" THEN [role |-> m.role, tool_call_id |-> m.tool_call_id]
    ELSE IF "tool_calls" \in DOMAIN m THEN [role |-> m.role, tool_calls |-> m.tool_calls]
    ELSE [role |-> m.role]

\* chat.py:576-604: one pass of the for loop. execLog notes each execute_tool
\* invocation with the headers of the transcript at that moment.
ToolCall ==
    /\ pc = "ExecutingTools"
    /\ LET tool_call == CurrentToolCall(response, idx)
           tool_name == tool_call.function.name
           parsed == json_loads(tool_call.function.arguments)
       IN  IF ~parsed.ok
           THEN /\ pc' = "Raised"
                /\ exc' = Exception("JSONDecodeError", parsed.error, "chat.py:578")
                /\ UNCHANGED <<messages, tool_calls_made, idx, execLog>>
           ELSE \E behaviour \in Behaviours(tool_name) :
                LET tool_args == parsed.value
                    eff == execute_tool(tool_name, tool_args, behaviour)
                IN  /\ execLog' = Append(execLog,
                            [id |-> tool_call.id, name |-> tool_name,
                             arguments |-> tool_args, effect |-> eff,
                             round |-> requests, transcript |-> [j \in DOMAIN messages |-> Header(messages[j])]])
                    /\ tool_calls_made' =
                            Append(tool_calls_made, ToolCallRecord(tool_name, tool_args, eff))
                    /\ messages' = Append(messages, ToolMessage(tool_call, ToolResult(eff)))
                    /\ IF idx < Len(response.tool_calls)
                       THEN idx' = idx + 1 /\ pc' = pc
                       ELSE idx' = 0 /\ pc' = "AwaitingModel"
                    /\ exc' = exc
    /\ UNCHANGED <<history, response, outcome, requests, tool_rounds, requested, execResult>>

Next == ModelRequest \/ ModelRequestRaises \/ ToolCall

Spec == Init /\ [][Next]_vars

----
\* execute_tool called on its own, as the tests of TestToolExecution do.

ExecNames ==
    Elems(TOOL_NAMES) \cup DrawingTools \cup ModuleFunctions \cup { "nonexistent_tool", LongName }
ExecArguments == JsonDocs \cup { JDict(<<"bogus">>, <<JInt(1)>>) }

InitExec ==
    /\ pc = "Direct"
    /\ history = <<>>
    /\ messages = <<>>
    /\ tool_calls_made = <<>>
    /\ response = None
    /\ idx = 0
    /\ outcome = None
    /\ exc = None
    /\ requests = 0
    /\ tool_rounds = 0
    /\ requested = <<>>
    /\ execLog = <<>>
    /\ execResult = None

\* One call of execute_tool by a caller other than chat().
ExecuteToolDirect ==
    /\ pc = "Direct"
    /\ execResult = None
    /\ \E name \in ExecNames, arguments \in ExecArguments :
        \E behaviour \in Behaviours(name) :
            execResult' = [name |-> name, arguments |-> arguments,
                           behaviour |-> behaviour,
                           effect |-> execute_tool(name, arguments, behaviour)]
    /\ UNCHANGED chatVars

SpecExec == InitExec /\ [][ExecuteToolDirect]_vars

----
\* chat() called with histories of every length up to MaxHistoryLen, with and
\* without a context, up to the answer to its first model request.

\* Length of the longest history of the caller.
MaxHistoryLen == 25

\* The history of n messages that starts with the given role: the turns of
\* user and assistant alternate, and each message has a text of its own.
HistoryOf(n, first) ==
    [j \in 1..n |->
        [role |-> IF (j % 2 = 1) = (first = "user") THEN "user" ELSE "assistant",
         content |-> "message " \o ToString(j)]]

\* The context the endpoint of http_server.py:78-85 passes on, or None.
ContextChoices ==
    { None, [type |-> "task", id |-> 7, data |-> "# Mend the north fence"] }

InitHist ==
    /\ pc = "AwaitingModel"
    /\ \E n \in 0..MaxHistoryLen, first \in {"user", "assistant"} :
            history = HistoryOf(n, first)
    /\ \E context \in ContextChoices :
            messages = InitialMessages(history, UserMessage, context)
    /\ tool_calls_made = <<>>
    /\ response = None
    /\ idx = 0
    /\ outcome = None
    /\ exc = None
    /\ requests = 0
    /\ tool_rounds = 0
    /\ requested = <<>>
    /\ execLog = <<>>
    /\ execResult = None

\* The first model request, answered without tool calls.
FirstRequestAnswered == ModelRequest /\ response'.tool_calls = <<>>

NextHist == FirstRequestAnswered \/ ModelRequestRaises

SpecHist == InitHist /\ [][NextHist]_vars

----
\* _truncate_result called on its own, on results of every shape and with
\* several values of max_length.

\* Items of the longest data list.
MaxDataItems == 7

\* Lengths of the items of a data list.
ItemLens == { 1, 40, LongLen \div 4 }

\* The result of a list endpoint with 21 items (main.py:140-159).
List21 == ApiList(21, LongLen \div 20)

\* A failure of _api_call that carries the answer of the farm API
\* (main.py:75-81), here a list of n items.
ApiFailure(n, itemLen) ==
    JDict(<<"success", "error", "status_code", "response_data">>,
          << JBool(FALSE), JStr("500 Internal Server Error"), JInt(500),
             JDict(<<"data">>, << JList([j \in 1..n |-> JStr(Rep("x", itemLen))]) >>) >>)

\* The results _truncate_result is given: the answers of _api_call with data
\* lists of every length, a JSON:API document under data, a result that has a
\* _truncated field of its own, summaries, an error object, and values that
\* are no mapping.
TruncResults ==
    { ApiList(n, l) : n \in 0..MaxDataItems, l \in ItemLens }
    \cup { List21, TimedOut, SmallSummary, BigSummary, ApiFailure(6, 40),
           JDict(<<"success", "data", "status_code">>,
                 << JBool(TRUE),
                    JDict(<<"id", "type", "attributes">>,
                          << JStr("1"), JStr("asset"),
                             JDict(<<"name">>, <<JStr(Rep("x", LongLen))>>) >>),
                    JInt(200) >>),
           JDict(<<"_truncated", "data", "link">>,
                 << JBool(FALSE), JList([j \in 1..6 |-> JInt(j)]),
                    JStr("http://localhost:8080/map") >>),
           JDict(<<"error">>, <<JStr("Unknown tool: " \o LongName)>>),
           JList([j \in 1..6 |-> JStr(Rep("x", LongLen \div 4))]),
           JStr(Rep("x", LongLen)), None }

\* The values of max_length: the default, and smaller ones.
MaxLengths == { MAX_TOOL_RESULT_LENGTH, 200, 60 }

InitTrunc ==
    /\ pc = "Truncating"
    /\ \E result \in TruncResults, max_length \in MaxLengths :
            execResult = [result |-> result, max_length |-> max_length]
    /\ history = <<>>
    /\ messages = <<>>
    /\ tool_calls_made = <<>>
    /\ response = None
    /\ idx = 0
    /\ outcome = None
    /\ exc = None
    /\ requests = 0
    /\ tool_rounds = 0
    /\ requested = <<>>
    /\ execLog = <<>>

\* One call of _truncate_result.
Truncate ==
    /\ pc = "Truncating"
    /\ pc' = "Truncated"
    /\ execResult' = [result |-> execResult.result,
                      max_length |-> execResult.max_length,
                      output |-> _truncate_result(execResult.result,
                                                  execResult.max_length)]
    /\ UNCHANGED <<history, messages, tool_calls_made, response, idx, outcome, exc,
                   requests, tool_rounds, requested, execLog>>

SpecTrunc == InitTrunc /\ [][Truncate]_vars

----
\* get_tool_definitions(), chat.py:436-442, step by step: the loop over
\* TOOL_NAMES, and for each tool the loop of _function_to_openai_tool over the
\* parameters. execResult holds the locals: tools, the position i in
\* TOOL_NAMES, func, properties, required and the position j in the
\* parameters.

InitTools ==
    /\ pc = "ListingTools"
    /\ execResult = [tools |-> <<>>, i |-> 1, func |-> "", properties |-> <<>>,
                     required |-> <<>>, j |-> 0]
    /\ history = <<>>
    /\ messages = <<>>
    /\ tool_calls_made = <<>>
    /\ response = None
    /\ idx = 0
    /\ outcome = None
    /\ exc = None
    /\ requests = 0
    /\ tool_rounds = 0
    /\ requested = <<>>
    /\ execLog = <<>>

\* chat.py:439-440: the lookup of the next name; an AttributeError leaves
\* get_tool_definitions.
LookupTool ==
    /\ pc = "ListingTools"
    /\ LET f == _get_tool_function(TOOL_NAMES[execResult.i])
       IN  IF f.found
           THEN /\ pc' = "ConvertingTool"
                /\ execResult' = [execResult EXCEPT !.func = f.func, !.properties = <<>>,
                                                    !.required = <<>>, !.j = 1]
                /\ exc' = exc
           ELSE /\ pc' = "Raised"
                /\ exc' = Exception("AttributeError", f.error, "chat.py:440")
                /\ execResult' = execResult
    /\ UNCHANGED <<history, messages, tool_calls_made, response, idx, outcome,
                   requests, tool_rounds, requested, execLog>>

\* chat.py:393-411: one pass of the loop over sig.parameters
AddParameter ==
    /\ pc = "ConvertingTool"
    /\ execResult.j <= Len(Parameters(execResult.func))
    /\ LET param_name == Parameters(execResult.func)[execResult.j]
           annotation == Annotations(execResult.func)[execResult.j]
       IN  execResult' =
               [execResult EXCEPT
                   !.properties =
                       IF \E k \in DOMAIN @ : @[k].name = param_name
                       THEN [k \in DOMAIN @ |->
                               IF @[k].name = param_name
                               THEN [name |-> param_name, schema |-> PropSchema(annotation)]
                               ELSE @[k]]
                       ELSE Append(@, [name |-> param_name,
                                       schema |-> PropSchema(annotation)]),
                   !.required = IF HasNoDefault(execResult.func, param_name)
                                THEN Append(@, param_name) ELSE @,
                   !.j = @ + 1]
    /\ UNCHANGED <<pc, history, messages, tool_calls_made, response, idx, outcome, exc,
                   requests, tool_rounds, requested, execLog>>

\* chat.py:422-433 and 441-442: the tool is built and appended; after the last
\* name the list is returned.
AppendTool ==
    /\ pc = "ConvertingTool"
    /\ execResult.j > Len(Parameters(execResult.func))
    /\ execResult' =
            [execResult EXCEPT
                !.tools = Append(@, OpenAITool(TOOL_NAMES[execResult.i],
                                               execResult.properties,
                                               execResult.required)),
                !.i = @ + 1]
    /\ pc' = IF execResult.i = Len(TOOL_NAMES) THEN "Listed" ELSE "ListingTools"
    /\ UNCHANGED <<history, messages, tool_calls_made, response, idx, outcome, exc,
                   requests, tool_rounds, requested, execLog>>

NextTools == LookupTool \/ AddParameter \/ AppendTool

SpecTools == InitTools /\ [][NextTools]_vars

----
\* POST /chat, http_server.py:70-95: chat_endpoint awaits chat() and turns its
\* outcome, or its exception, into the HTTP response.

\* The body of the request (http_server.py:35-39), after its validation.
ChatRequests ==
    { [message |-> UserMessage,
       history |-> << [role |-> "user", content |-> "Hello"],
                      [role |-> "assistant",
                       content |-> "Hello! I can help you manage your farm."] >>,
       context |-> [type |-> "task", id |-> 7, data |-> "# Mend the north fence"]] }

\* The validation of one record by the ToolCall model (http_server.py:42-47):
\* name: str, arguments: dict, result: Optional[dict], error: Optional[str].
\* An empty list as arguments is turned into {} by pydantic 1 (dict([])) and
\* refused by pydantic 2: coerce says which.
ToolCallModel(record, coerce) ==
    LET arguments == IF record.arguments = JList(<<>>) /\ coerce
                     THEN EmptyDict ELSE record.arguments
        result == IF "result" \in DOMAIN record THEN record.result ELSE None
        error == IF "error" \in DOMAIN record THEN JStr(record.error) ELSE None
    IN  IF IsDict(arguments) /\ (result = None \/ IsDict(result))
        THEN [ok |-> TRUE,
              value |-> [name |-> record.name, arguments |-> arguments,
                         result |-> result, error |-> error]]
        ELSE [ok |-> FALSE, value |-> None]

\* A handler that answers an exception with the error body and no status
\* code, so with the default 200.
chat_endpoint_default_status(returned, result, e, coerce) ==
    LET validated == [k \in DOMAIN result.tool_calls |->
                        ToolCallModel(result.tool_calls[k], coerce)]
    IN  IF ~returned
        THEN [status_code |-> 200, content |-> [error |-> e.message]]
        ELSE IF \E k \in DOMAIN validated : ~validated[k].ok
        THEN [status_code |-> 200,
              content |-> [error |-> "1 validation error for ChatResponse"]]
        ELSE [status_code |-> 200,
              content |-> [message |-> result.message,
                           tool_calls |-> [k \in DOMAIN validated |-> validated[k].value]]]

\* http_server.py:77-95: the response to the request, given whether chat()
\* returned, its result and its exception. The ChatResponse is built inside
\* the try block, so a record the ToolCall model refuses is an exception of
\* the block as well.
chat_endpoint(returned, result, e, coerce) ==
    LET validated == [k \in DOMAIN result.tool_calls |->
                        ToolCallModel(result.tool_calls[k], coerce)]
    IN  IF ~returned
        THEN [status_code |-> 500, content |-> [error |-> e.message]]
        ELSE IF \E k \in DOMAIN validated : ~validated[k].ok
        THEN [status_code |-> 500,
              content |-> [error |-> "1 validation error for ChatResponse"]]
        ELSE [status_code |-> 200,
              content |-> [message |-> result.message,
                           tool_calls |-> [k \in DOMAIN validated |-> validated[k].value]]]

InitHttp ==
    /\ pc = "AwaitingModel"
    /\ \E request \in ChatRequests :
            /\ history = request.history
            /\ messages = InitialMessages(request.history, request.message, request.context)
    /\ tool_calls_made = <<>>
    /\ response = None
    /\ idx = 0
    /\ outcome = None
    /\ exc = None
    /\ requests = 0
    /\ tool_rounds = 0
    /\ requested = <<>>
    /\ execLog = <<>>
    /\ execResult = None

\* http_server.py:87-95: chat() has returned or raised, and the handler
\* answers.
Respond ==
    /\ pc \in {"Done", "Raised"}
    /\ execResult = None
    /\ \E coerce \in BOOLEAN :
            execResult' = chat_endpoint(pc = "Done",
                                        IF pc = "Done" THEN outcome
                                        ELSE [message |-> "", tool_calls |-> <<>>],
                                        exc, coerce)
    /\ UNCHANGED chatVars

NextHttp == ModelRequest \/ ModelRequestRaises \/ ToolCall \/ Respond

SpecHttp == InitHttp /\ [][NextHttp]_vars

----
\* _api_call, main.py:51-88, called on its own: the one function of main.py
\* that talks to the farm API.

\* main.py:7
FARM_API_URL == "http://localhost:3005/api/v1"

\* s.lstrip("/") and s.rstrip("/")
RECURSIVE LStripSlash(_)
LStripSlash(s) ==
    IF Len(s) > 0 /\ SubSeq(s, 1, 1) = "/" THEN LStripSlash(SubSeq(s, 2, Len(s))) ELSE s
RECURSIVE RStripSlash(_)
RStripSlash(s) ==
    IF Len(s) > 0 /\ SubSeq(s, Len(s), Len(s)) = "/"
    THEN RStripSlash(SubSeq(s, 1, Len(s) - 1)) ELSE s

\* method.upper(), for the methods the tools pass
Upper(method) ==
    CASE method = "get" -> "GET"
      [] method = "post" -> "POST"
      [] OTHER -> method

\* What requests.request may do: raise an exception of one of the classes of
\* requests.exceptions, or give a response with a status, a reason and a body
\* that is a JSON document or is not.
HttpException(class, message) == [kind |-> "exception", class |-> class, message |-> message]
HttpResponse(status_code, reason, isJson, json, text) ==
    [kind |-> "response", status_code |-> status_code, reason |-> reason,
     isJson |-> isJson, json |-> json, text |-> text]
HttpReplies ==
    { HttpException("ReadTimeout", "Read timed out. (read timeout=15)"),
      HttpException("ConnectTimeout", "Connection to localhost timed out."),
      HttpException("ConnectionError", "Connection refused"),
      HttpException("TooManyRedirects", "Exceeded 30 redirects."),
      HttpException("ChunkedEncodingError", "Connection broken"),
      HttpResponse(200, "OK", TRUE, JDict(<<"data">>, <<JList(<<>>)>>), ""),
      HttpResponse(201, "Created", TRUE,
                   JDict(<<"data">>, <<JDict(<<"id">>, <<JStr("1")>>)>>), ""),
      HttpResponse(204, "No Content", FALSE, None, ""),
      HttpResponse(304, "Not Modified", FALSE, None, ""),
      HttpResponse(404, "Not Found", TRUE,
                   JDict(<<"errors">>, <<JList(<<JStr("not found")>>)>>), ""),
      HttpResponse(422, "Unprocessable Entity", TRUE,
                   JDict(<<"errors">>, <<JList(<<JStr("name is missing")>>)>>), ""),
      HttpResponse(500, "Internal Server Error", FALSE, None, "<html>error</html>") }

\* issubclass(class, requests.exceptions.Timeout) and
\* issubclass(class, requests.exceptions.ConnectionError): ConnectTimeout is
\* both.
IsTimeout(class) == class \in { "Timeout", "ReadTimeout", "ConnectTimeout" }
IsConnectionError(class) ==
    class \in { "ConnectionError", "ConnectTimeout", "SSLError", "ProxyError" }

\* Response.ok of requests: raise_for_status raises for 400 <= status < 600
\* only.
ResponseOk(status_code) == ~(400 <= status_code /\ status_code < 600)

\* main.py:51-88: the value returned, and the HTTP requests made.
_api_call(endpoint, method, params, data, reply) ==
    LET url == RStripSlash(FARM_API_URL) \o "/" \o LStripSlash(endpoint)
        sent == << [method |-> Upper(method), url |-> url, params |-> params,
                    json |-> data, timeout |-> 15] >>
        response_data == IF reply.isJson THEN reply.json ELSE JStr(reply.text)
        value ==
            IF reply.kind = "response"
            THEN IF ResponseOk(reply.status_code)
                 THEN JDict(<<"success", "data", "status_code">>,
                            <<JBool(TRUE), response_data, JInt(reply.status_code)>>)
                 ELSE JDict(<<"success", "error", "status_code", "response_data">>,
                            << JBool(FALSE),
                               JStr(ToString(reply.status_code) \o " " \o reply.reason),
                               JInt(reply.status_code), response_data >>)
            ELSE IF IsTimeout(reply.class)
            THEN JDict(<<"success", "error">>, <<JBool(FALSE), JStr("Request timed out")>>)
            ELSE IF IsConnectionError(reply.class)
            THEN JDict(<<"success", "error">>,
                       <<JBool(FALSE), JStr("Connection error: " \o reply.message)>>)
            ELSE JDict(<<"success", "error">>,
                       <<JBool(FALSE), JStr("Unexpected error: " \o reply.message)>>)
    IN  [raised |-> FALSE, value |-> value, sent |-> sent]

\* The calls the tools make (main.py:125, 159, 171, 219, 269).
ApiEndpoints == { "", "schema", "assets/animal", "/assets/animal/1" }
ApiMethods == { "GET", "POST", "PATCH", "DELETE", "get" }
ApiData == { None, JDict(<<"data">>, <<JDict(<<"type">>, <<JStr("asset")>>)>>) }

InitApi ==
    /\ pc = "CallingApi"
    /\ \E endpoint \in ApiEndpoints, method \in ApiMethods, data \in ApiData,
          reply \in HttpReplies :
            execResult = [endpoint |-> endpoint, method |-> method, data |-> data,
                          reply |-> reply]
    /\ history = <<>>
    /\ messages = <<>>
    /\ tool_calls_made = <<>>
    /\ response = None
    /\ idx = 0
    /\ outcome = None
    /\ exc = None
    /\ requests = 0
    /\ tool_rounds = 0
    /\ requested = <<>>
    /\ execLog = <<>>

\* One call of _api_call.
ApiCall ==
    /\ pc = "CallingApi"
    /\ pc' = "ApiReturned"
    /\ execResult' = [endpoint |-> execResult.endpoint, method |-> execResult.method,
                      data |-> execResult.data, reply |-> execResult.reply,
                      effect |-> _api_call(execResult.endpoint, execResult.method, None,
                                           execResult.data, execResult.reply)]
    /\ UNCHANGED <<history, messages, tool_calls_made, response, idx, outcome, exc,
                   requests, tool_rounds, requested, execLog>>

SpecApi == InitApi /\ [][ApiCall]_vars

----
\* Properties of chat() and execute_tool.

ToolNameSet == { TOOL_NAMES[j] : j \in DOMAIN TOOL_NAMES }

\* An assistant message that carries tool calls; a tool message.
CarriesToolCalls(m) == m.role = "assistant" /\ "tool_calls" \in DOMAIN m
IsToolMessage(m) == m.role = "tool"

\* Whether a payload is a JSON document.
Decodable(s) == \E v \in JsonDocs : json_dumps(v) = s

\* The last element of a sequence.
Last(seq) == seq[Len(seq)]

\* The step is one execute_tool invocation by chat() that raised.
ExecuteToolRaised ==
    Len(execLog') = Len(execLog) + 1 /\ Last(execLog').effect.raised

\* C1: whenever execute_tool raises for a requested tool call, a record with
\* the error text and a tool message with the call's id are appended, and the
\* turn does not abort: a round in which execute_tool raised does not end in an
\* exception before its remaining calls are executed and the next model
\* request is issued.
C1_ToolFailureContained ==
    [][ /\ ExecuteToolRaised =>
            LET e == Last(execLog')
            IN  /\ tool_calls_made' =
                       Append(tool_calls_made,
                              [name |-> e.name, arguments |-> e.arguments,
                               error |-> e.effect.error])
                /\ Len(messages') = Len(messages) + 1
                /\ IsToolMessage(Last(messages'))
                /\ Last(messages').tool_call_id = e.id
                /\ pc' # "Raised"
        /\ (pc = "ExecutingTools" /\ pc' = "Raised") =>
            ~\E k \in DOMAIN execLog :
                execLog[k].round = requests /\ execLog[k].effect.raised
      ]_vars

\* The step is one model request that brought a response.
ResponseArrived ==
    requests' = requests + 1 /\ ~(exc' # None /\ exc'.at = "completions.create")

\* C2: chat() returns in a round exactly when the response carries no tool
\* calls or its finish indicator is "stop"; it returns the assistant's text
\* ("" when there is none) and the records accumulated in the earlier rounds.
C2_ReturnsExactlyOnFinal ==
    [][ ResponseArrived =>
            /\ (pc' = "Done") <=>
                   (response'.tool_calls = <<>> \/ response'.finish_reason = "stop")
            /\ pc' = "Done" =>
                   outcome' = [message |-> IF response'.content = None
                                           THEN "" ELSE response'.content.s,
                               tool_calls |-> tool_calls_made]
      ]_vars

\* The transcript is well formed: every assistant message with tool calls is
\* followed at once by one tool message per call, in order and with the call's
\* id, and by no further tool message; every tool message belongs to such a
\* block.
WellFormed(msgs) ==
    /\ \A p \in DOMAIN msgs :
        CarriesToolCalls(msgs[p]) =>
            LET tcs == msgs[p].tool_calls
            IN  /\ p + Len(tcs) <= Len(msgs)
                /\ \A j \in DOMAIN tcs :
                        /\ IsToolMessage(msgs[p + j])
                        /\ msgs[p + j].tool_call_id = tcs[j].id
                /\ p + Len(tcs) < Len(msgs) => ~IsToolMessage(msgs[p + Len(tcs) + 1])
    /\ \A p \in DOMAIN msgs :
        IsToolMessage(msgs[p]) =>
            \E q \in 1..(p - 1) :
                CarriesToolCalls(msgs[q]) /\ p - q <= Len(msgs[q].tool_calls)

\* C3: at every model request after the first the transcript is well formed.
C3_TranscriptWellFormed ==
    (pc = "AwaitingModel" /\ requests >= 1) => WellFormed(messages)

\* A second request is due after a round of two calls of which one failed.
C3_Witness ==
    /\ pc = "AwaitingModel" /\ requests = 1
    /\ Len(tool_calls_made) = 2
    /\ "error" \in DOMAIN tool_calls_made[1]
    /\ "result" \in DOMAIN tool_calls_made[2]

\* The place of the k-th execution among the executions of its round.
PlaceInRound(k) ==
    k + 1 - (CHOOSE j \in DOMAIN execLog :
                /\ execLog[j].round = execLog[k].round
                /\ \A l \in DOMAIN execLog : execLog[l].round = execLog[k].round => j <= l)

\* C4: the calls of a round are executed one at a time in the order listed:
\* when the i-th execution starts, the transcript ends with the round's
\* assistant message and the tool messages of the calls before it; all calls
\* are executed and answered before the next model request; the records of the
\* outcome are in request order.
C4_ExecutionOrder ==
    /\ \A k \in DOMAIN execLog :
        LET e == execLog[k]
            i == PlaceInRound(k)
            t == e.transcript
            am == t[Len(t) - i + 1]
        IN  /\ k <= Len(requested)
            /\ e.id = requested[k].id
            /\ e.name = requested[k].function.name
            /\ CarriesToolCalls(am)
            /\ i <= Len(am.tool_calls)
            /\ am.tool_calls[i].id = e.id
            /\ \A j \in 1..(i - 1) :
                    /\ IsToolMessage(t[Len(t) - i + 1 + j])
                    /\ t[Len(t) - i + 1 + j].tool_call_id = am.tool_calls[j].id
                    /\ execLog[k - i + j].id = am.tool_calls[j].id
    /\ pc = "AwaitingModel" =>
        /\ Len(execLog) = Len(requested)
        /\ Cardinality({ p \in DOMAIN messages : IsToolMessage(messages[p]) })
              = Len(requested)
    /\ pc = "Done" =>
        /\ Len(outcome.tool_calls) = Len(requested)
        /\ \A k \in DOMAIN requested :
                /\ outcome.tool_calls[k].name = requested[k].function.name
                /\ outcome.tool_calls[k].arguments
                      = json_loads(requested[k].function.arguments).value

\* chat() returned after one round of two different calls.
C4_Witness ==
    /\ pc = "Done" /\ requests = 2
    /\ Len(outcome.tool_calls) = 2
    /\ outcome.tool_calls[1].name = "list_assets"
    /\ outcome.tool_calls[2].name = "get_farm_summary"

\* C5: every tool call requested in a round chat() does not terminate on is
\* passed to execute_tool exactly once and gets exactly one record and one tool
\* message; the outcome holds as many records as calls were requested.
C5_ExactlyOnce ==
    pc # "ExecutingTools" =>
        /\ \A k \in DOMAIN requested :
            /\ Cardinality({ j \in DOMAIN execLog : execLog[j].id = requested[k].id }) = 1
            /\ Cardinality({ p \in DOMAIN messages :
                                /\ IsToolMessage(messages[p])
                                /\ messages[p].tool_call_id = requested[k].id }) = 1
        /\ Len(tool_calls_made) = Len(requested)
        /\ pc = "Done" => Len(outcome.tool_calls) = Len(requested)

\* C6: a chat() call that returns made one model request more than the number
\* of rounds in which the model asked for tools without signalling stop.
C6_RequestCount == pc = "Done" => requests = tool_rounds + 1

\* chat() returned after two tool rounds.
C6_Witness == pc = "Done" /\ tool_rounds = 2 /\ requests = 3

\* C7: every record has the name and the deserialized arguments of its call
\* and exactly one of result and error; it has error exactly when execute_tool
\* raised for the call.
C7_RecordShape ==
    \A k \in DOMAIN tool_calls_made :
        LET r == tool_calls_made[k]
        IN  /\ k <= Len(execLog) /\ k <= Len(requested)
            /\ \/ DOMAIN r = {"name", "arguments", "result"}
               \/ DOMAIN r = {"name", "arguments", "error"}
            /\ ("error" \in DOMAIN r) <=> execLog[k].effect.raised
            /\ "error" \in DOMAIN r => r.error = execLog[k].effect.error
            /\ "result" \in DOMAIN r => r.result = execLog[k].effect.value
            /\ r.name = requested[k].function.name
            /\ r.arguments = json_loads(requested[k].function.arguments).value

\* The turn holds a record with an error and one with a result.
C7_Witness ==
    /\ \E k \in DOMAIN tool_calls_made : "error" \in DOMAIN tool_calls_made[k]
    /\ \E k \in DOMAIN tool_calls_made : "result" \in DOMAIN tool_calls_made[k]

\* C8: a tool call whose argument payload cannot be deserialized is a failure
\* of that call alone: an error record and an error tool message for its id
\* are appended and the turn goes on.
C8_DecodeFailureContained ==
    [][ (pc = "ExecutingTools"
         /\ ~Decodable(response.tool_calls[idx].function.arguments)) =>
            /\ pc' # "Raised"
            /\ Len(tool_calls_made') = Len(tool_calls_made) + 1
            /\ "error" \in DOMAIN Last(tool_calls_made')
            /\ Len(messages') = Len(messages) + 1
            /\ IsToolMessage(Last(messages'))
            /\ Last(messages').tool_call_id = response.tool_calls[idx].id
      ]_vars

\* C9: a requested tool whose name is not in TOOL_NAMES gets an error record
\* and an error tool message for its id, no callable is invoked for it, and
\* the loop goes on.
C9_UnknownToolContained ==
    [][ (pc = "ExecutingTools"
         /\ response.tool_calls[idx].function.name \notin ToolNameSet) =>
            /\ pc' # "Raised"
            /\ Len(tool_calls_made') = Len(tool_calls_made) + 1
            /\ "error" \in DOMAIN Last(tool_calls_made')
            /\ Len(messages') = Len(messages) + 1
            /\ IsToolMessage(Last(messages'))
            /\ Last(messages').tool_call_id = response.tool_calls[idx].id
            /\ Len(execLog') = Len(execLog) + 1
            /\ Last(execLog').effect.invoked = <<>>
      ]_vars

\* C10: execute_tool with a name outside TOOL_NAMES raises "Unknown tool"
\* before any lookup and without invoking a callable.
C10_UnknownToolRaises ==
    (execResult # None /\ execResult.name \notin ToolNameSet) =>
        /\ execResult.effect.raised
        /\ execResult.effect.error = "Unknown tool: " \o execResult.name
        /\ execResult.effect.lookups = <<>>
        /\ execResult.effect.invoked = <<>>

\* execute_tool was called with the name of a function chat.py defines and
\* arguments the function accepts.
C10_Witness ==
    /\ execResult # None
    /\ execResult.name = "start_drawing"
    /\ execResult.arguments = JDict(<<"mode">>, <<JStr("polygon")>>)
    /\ execResult.effect.raised

\* Whether the call func(**arguments) can be bound: arguments is a mapping
\* that names only parameters of func and every parameter without a default.
Accepts(func, arguments) ==
    /\ arguments.t = "dict"
    /\ \A j \in DOMAIN arguments.keys :
            arguments.keys[j] \in Elems(Signature(func).required)
                                   \cup Elems(Signature(func).optional)
    /\ \A j \in DOMAIN Signature(func).required :
            \E k \in DOMAIN arguments.keys :
                arguments.keys[k] = Signature(func).required[j]

\* C11: for a name in TOOL_NAMES, execute_tool looks the name up once and
\* calls the callable found under it exactly once with the arguments as
\* keyword parameters; it returns what the callable returns, unchanged, and an
\* exception of the callable (or of the call itself, when the arguments do not
\* fit the callable's parameters) propagates to the caller.
C11_Delegates ==
    (execResult # None /\ execResult.name \in ToolNameSet) =>
        LET name == execResult.name
            arguments == execResult.arguments
            behaviour == execResult.behaviour
            eff == execResult.effect
        IN  /\ eff.lookups = <<name>>
            /\ Accepts(name, arguments) =>
                    /\ eff.invoked = << [func |-> name, kwargs |-> arguments] >>
                    /\ eff.raised <=> behaviour.raises
                    /\ ~behaviour.raises => eff.value = behaviour.value
                    /\ behaviour.raises => eff.error = behaviour.error
            /\ ~Accepts(name, arguments) => eff.raised /\ eff.invoked = <<>>

\* execute_tool("list_assets", {"asset_type": "animal"}) returned the list
\* the callable returned.
C11_Witness ==
    /\ execResult # None
    /\ execResult.name = "list_assets"
    /\ execResult.arguments = JDict(<<"asset_type">>, <<JStr("animal")>>)
    /\ execResult.effect.invoked # <<>>
    /\ ~execResult.effect.raised
    /\ execResult.effect.value = List6

\* C12: the message list of the first model request is one system message,
\* then the last min(n, 20) messages of the history of n messages in their
\* order, then the new user message: min(n, 20) + 2 messages.
C12_HistoryCapped ==
    requests <= 1 =>
        LET n == Len(history)
            kept == IF n < 20 THEN n ELSE 20
        IN  /\ Len(messages) = kept + 2
            /\ messages[1].role = "system"
            /\ \A j \in 1..kept : messages[1 + j] = history[n - kept + j]
            /\ messages[kept + 2] = [role |-> "user", content |-> UserMessage]

\* The first request was made with a history of 25 messages.
C12_Witness ==
    /\ requests = 1
    /\ Len(history) = 25
    /\ Len(messages) = 22
    /\ messages[2] = history[6]

\* The encoding of a result, as the caller of _truncate_result would compute
\* it.
EncodingLen(result) == Len(json_dumps(result))

\* C13: a result whose encoding is not longer than max_length comes back as
\* that encoding, whatever its shape.
C13_ShortResultUnchanged ==
    (pc = "Truncated" /\ EncodingLen(execResult.result) <= execResult.max_length) =>
        execResult.output = json_dumps(execResult.result)

\* A mapping with a data list of 7 small items was encoded as it is.
C13_Witness ==
    /\ pc = "Truncated"
    /\ execResult.result = ApiList(7, 1)
    /\ execResult.max_length = 200
    /\ execResult.output = json_dumps(ApiList(7, 1))

\* A mapping with a data field that is a list of more than 5 elements.
HasLongDataList(result) ==
    /\ result.t = "dict"
    /\ \E j \in DOMAIN result.keys : result.keys[j] = "data"
    /\ \A j \in DOMAIN result.keys :
            result.keys[j] = "data" =>
                result.vals[j].t = "list" /\ Len(result.vals[j].items) > 5

\* The copy of such a mapping the claim describes: the fields in their
\* order, data cut to its first 5 elements, and the note as the field
\* _truncated (at the end, unless the mapping has a field of that name).
ShortenedCopy(result) ==
    LET n == Len(Get(result, "data").items)
        note == JStr("Showing 5 of " \o ToString(n)
                     \o " items. Use more specific filters to see more.")
        keys == IF \E j \in DOMAIN result.keys : result.keys[j] = "_truncated"
                THEN result.keys ELSE result.keys \o <<"_truncated">>
    IN  [t |-> "dict",
         keys |-> keys,
         vals |-> [j \in DOMAIN keys |->
                     IF keys[j] = "data"
                     THEN [t |-> "list",
                           items |-> [i \in 1..5 |-> result.vals[j].items[i]]]
                     ELSE IF keys[j] = "_truncated" THEN note
                     ELSE result.vals[j]]]

\* C14: for a mapping whose encoding is longer than max_length and whose data
\* field is a list of N > 5 elements, _truncate_result returns the encoding of
\* a copy in which data holds the first 5 elements in order, every other field
\* is as it was, and a _truncated note says "5 of N".
C14_ListSlicedToFive ==
    (pc = "Truncated" /\ HasLongDataList(execResult.result)
     /\ EncodingLen(execResult.result) > execResult.max_length) =>
        /\ execResult.output = json_dumps(ShortenedCopy(execResult.result))
        /\ Contains(Get(ShortenedCopy(execResult.result), "_truncated").s,
                    "5 of " \o ToString(Len(Get(execResult.result, "data").items)))

\* The list of 21 items was cut to 5.
C14_Witness ==
    /\ pc = "Truncated"
    /\ execResult.result = List21
    /\ execResult.max_length = MAX_TOOL_RESULT_LENGTH
    /\ Len(execResult.output) < MAX_TOOL_RESULT_LENGTH
    /\ execResult.output # json_dumps(List21)

\* C15: the content of every tool message chat() appends is at most 8000
\* characters long, whatever the tool returned or raised.
C15_ToolContentBounded ==
    \A p \in DOMAIN messages :
        messages[p].role = "tool" => Len(messages[p].content) <= 8000

\* C16: get_tool_definitions raises no lookup error and returns one tool per
\* name of TOOL_NAMES, in that order; the properties of each tool have exactly
\* one entry per parameter the callable declares, and its required list holds
\* exactly the parameters without a default value.
C16_OneToolPerName ==
    /\ pc # "Raised"
    /\ pc = "Listed" =>
        LET tools == execResult.tools
        IN  /\ Len(tools) = Len(TOOL_NAMES)
            /\ \A k \in DOMAIN tools :
                LET name == TOOL_NAMES[k]
                    parameters == tools[k].function.parameters
                    declared == Elems(Signature(name).required)
                                  \cup Elems(Signature(name).optional)
                IN  /\ tools[k].function.name = name
                    /\ { parameters.properties[m].name :
                            m \in DOMAIN parameters.properties } = declared
                    /\ Len(parameters.properties) = Cardinality(declared)
                    /\ Elems(parameters.required) = Elems(Signature(name).required)
                    /\ Len(parameters.required) = Len(Signature(name).required)

\* The list was returned, and the tool of list_assets is in it with its four
\* properties, of which one is required.
C16_Witness ==
    /\ pc = "Listed"
    /\ Len(execResult.tools) = 56
    /\ execResult.tools[3].function.name = "list_assets"
    /\ Len(execResult.tools[3].function.parameters.properties) = 4
    /\ execResult.tools[3].function.parameters.required = <<"asset_type">>

\* A record the ToolCall model of the endpoint takes as it is: its arguments
\* are a mapping, and so is its result when it has one.
FitsToolCallModel(record) ==
    /\ record.arguments.t = "dict"
    /\ "result" \in DOMAIN record => record.result.t = "dict"

\* C18: when chat() raised, the response to POST /chat has status 500 and a
\* body with an error field (and so has the response to a turn whose records
\* the response model refuses): no exception leaves the handler. When chat()
\* returned, the response has status 200 and carries the message and the
\* tool calls of the turn.
C18_EndpointAnswers ==
    execResult # None =>
        /\ execResult.status_code \in {200, 500}
        /\ execResult.status_code = 500 =>
                /\ DOMAIN execResult.content = {"error"}
                /\ \/ pc = "Raised"
                   \/ \E k \in DOMAIN outcome.tool_calls :
                            ~FitsToolCallModel(outcome.tool_calls[k])
        /\ pc = "Raised" =>
                /\ execResult.status_code = 500
                /\ execResult.content.error = exc.message
        /\ (pc = "Done" /\ \A k \in DOMAIN outcome.tool_calls :
                                FitsToolCallModel(outcome.tool_calls[k])) =>
                /\ execResult.status_code = 200
                /\ execResult.content.message = outcome.message
                /\ Len(execResult.content.tool_calls) = Len(outcome.tool_calls)
                /\ \A k \in DOMAIN outcome.tool_calls :
                        LET sent == execResult.content.tool_calls[k]
                            made == outcome.tool_calls[k]
                        IN  /\ sent.name = made.name
                            /\ sent.arguments = made.arguments
                            /\ "result" \in DOMAIN made =>
                                    sent.result = made.result /\ sent.error = None
                            /\ "error" \in DOMAIN made =>
                                    sent.error = JStr(made.error) /\ sent.result = None

\* The request to the model failed, and the endpoint answered with 500.
C18_Witness ==
    /\ execResult # None
    /\ pc = "Raised"
    /\ exc.at = "completions.create"
    /\ execResult.status_code = 500
    /\ execResult.content = [error |-> "Connection error."]

\* C17: chat() has no round cap: a response that asks for tools without the
\* stop indicator always opens a round, however many rounds there were, and
\* chat() reaches Done once the model returns a response with no tool calls
\* or with the stop indicator.
C17_NoRoundCap ==
    [][ ResponseArrived =>
            IF response'.tool_calls = <<>> \/ response'.finish_reason = "stop"
            THEN pc' = "Done"
            ELSE pc' = "ExecutingTools" /\ tool_rounds' = tool_rounds + 1
      ]_vars

\* C19: _api_call never raises and makes exactly one HTTP request; it returns
\* {success: true, data, status_code} for a 2xx response, {success: false,
\* error, status_code, response_data} for any other response, and {success:
\* false, error} when the request raised.
C19_ApiCallShapes ==
    pc = "ApiReturned" =>
        LET reply == execResult.reply
            eff == execResult.effect
        IN  /\ ~eff.raised
            /\ Len(eff.sent) = 1
            /\ eff.value.t = "dict"
            /\ IF reply.kind = "exception"
               THEN /\ eff.value.keys = <<"success", "error">>
                    /\ eff.value.vals[1] = JBool(FALSE)
               ELSE IF 200 <= reply.status_code /\ reply.status_code <= 299
               THEN /\ eff.value.keys = <<"success", "data", "status_code">>
                    /\ eff.value.vals[1] = JBool(TRUE)
                    /\ eff.value.vals[3] = JInt(reply.status_code)
               ELSE /\ eff.value.keys = <<"success", "error", "status_code", "response_data">>
                    /\ eff.value.vals[1] = JBool(FALSE)
                    /\ eff.value.vals[3] = JInt(reply.status_code)

\* A value by which a tool reports a failure without raising.
ReportsFailure(value) ==
    /\ value.t = "dict"
    /\ \E j \in DOMAIN value.keys :
            value.keys[j] = "success" /\ value.vals[j] = [t |-> "bool", b |-> FALSE]

\* C20: a tool that returns {success: false, ...} without raising is handled
\* like a tool that succeeded: its record carries the value under result and
\* has no error field, and the content of its tool message is the encoding of
\* the value.
C20_ReturnedFailureIsResult ==
    \A k \in DOMAIN execLog :
        (~execLog[k].effect.raised /\ ReportsFailure(execLog[k].effect.value)) =>
            /\ k <= Len(tool_calls_made)
            /\ tool_calls_made[k] = [name |-> execLog[k].name,
                                     arguments |-> execLog[k].arguments,
                                     result |-> execLog[k].effect.value]
            /\ \E p \in DOMAIN messages :
                    /\ messages[p].role = "tool"
                    /\ messages[p].tool_call_id = execLog[k].id
                    /\ messages[p].content
                          = "{\"success\": false, \"error\": \"Request timed out\"}"

\* chat() returned after a round in which list_assets reported a timeout as
\* its value.
C20_Witness ==
    /\ pc = "Done"
    /\ Len(outcome.tool_calls) = 1
    /\ outcome.tool_calls[1].name = "list_assets"
    /\ "result" \in DOMAIN outcome.tool_calls[1]
    /\ outcome.tool_calls[1].result = TimedOut

----
\* Two chat() turns running at once in one process (chat.py:77-90, 496-604),
\* with the lists as objects. A turn is a call of chat(); its steps may
\* interleave with the other turn's in any order. In this specification pc,
\* response, idx, outcome and requests are indexed by turn; messages holds
\* the list objects of messages by their identity (the caller's history
\* lists, the lists slicing makes and the transcripts) and tool_calls_made
\* the lists of records; history is each caller's list as it was when
\* chat() was called; execLog and requested note per turn what the turn
\* itself appended to its two lists; execResult holds the module attributes
\* of chat.py and the object each turn's recent_history refers to.
Turns == 1..2

\* The message of the caller of each turn.
TurnMessage(turn) == IF turn = 1 THEN UserMessage ELSE "Which tasks are open?"

\* The histories of the callers: none, a short one, and one longer than
\* MAX_HISTORY_MESSAGES.
TurnHistoryChoices == HistoryChoices \cup { HistoryOf(MaxHistoryLen, "user") }

\* What the model asks for in each turn.
TurnToolCallChoice(turn) ==
    IF turn = 1 THEN <<"list_tasks", "{}">> ELSE <<"nonexistent_tool", "{}">>

\* The tool calls of a response to the turn, with ids call_<turn>_<k>.
TurnToolCallObject(turn, k) ==
    [id |-> "call_" \o ToString(turn) \o "_" \o ToString(k),
     function |-> [name |-> TurnToolCallChoice(turn)[1],
                   arguments |-> TurnToolCallChoice(turn)[2]]]

\* The responses the model may give to the turn after k tool calls.
TurnResponses(turn, k) ==
    { Response(JStr("Answer to turn " \o ToString(turn)), <<>>, "stop") }
    \cup { Response(None, [j \in 1..n |-> TurnToolCallObject(turn, k + j)], "tool_calls") :
             n \in 1..Min(MaxCallsPerRound, MaxToolCalls - k) }

\* One list object shared by every call, as a module-level list or a mutable
\* default argument would be.
NewList_shared(turn) == 1

\* chat.py:515 and 528: a list display makes a new list object in every
\* call; the identity of the one made by the turn.
NewList(turn) == turn

\* The list object the caller of the turn passes as history.
HistoryObject(turn) == 10 + turn

\* history[-MAX_HISTORY_MESSAGES:], chat.py:519: slicing makes a new list
\* object.
SliceObject(turn) == 20 + turn

\* The list objects of the process.
ListObjects ==
    { NewList(t) : t \in Turns } \cup { HistoryObject(t) : t \in Turns }
    \cup { SliceObject(t) : t \in Turns }

\* chat.py:519: the object recent_history refers to: the slice of a history
\* longer than MAX_HISTORY_MESSAGES, otherwise the caller's list itself.
RecentHistoryObject(turn, h) ==
    IF Len(h) > MAX_HISTORY_MESSAGES THEN SliceObject(turn) ELSE HistoryObject(turn)

\* Appends that go to recent_history, from which the transcript would be
\* put together.
AppendTarget_recent_history(messages_object, recent_history_object) ==
    recent_history_object

\* chat.py:522, 559 and 600: messages.append(...) changes the list messages
\* refers to.
AppendTarget(messages_object, recent_history_object) == messages_object

\* OpenAI(api_key=...), chat.py:85: the n-th client object constructed.
OpenAIClient(n) == [constructed |-> n]

\* The client a test installs in chat.client (chat.py:89-90).
MockClient == [mock |-> TRUE]

InitConc ==
    /\ pc = [t \in Turns |-> "NotStarted"]
    /\ history \in [Turns -> TurnHistoryChoices]
    /\ messages = [a \in ListObjects |->
                     IF \E t \in Turns : a = HistoryObject(t)
                     THEN history[CHOOSE t \in Turns : a = HistoryObject(t)]
                     ELSE <<>>]
    /\ tool_calls_made = [a \in Turns |-> <<>>]
    /\ response = [t \in Turns |-> None]
    /\ idx = [t \in Turns |-> 0]
    /\ outcome = [t \in Turns |-> None]
    /\ exc = None
    /\ requests = [t \in Turns |-> 0]
    /\ tool_rounds = 0
    /\ requested = [t \in Turns |-> <<>>]
    /\ execLog = [t \in Turns |-> <<>>]
    /\ \E c \in {None, MockClient} :
         execResult = [_client |-> None, client |-> c, TOOL_NAMES |-> TOOL_NAMES,
                       constructed |-> 0,
                       openai_client |-> [t \in Turns |-> None],
                       recent_history |-> [t \in Turns |-> HistoryObject(t)]]

\* chat.py:508-528: the turn builds its two lists: the system message, the
\* recent history read from the object recent_history refers to, the user
\* message.
Begin(t) ==
    /\ pc[t] = "NotStarted"
    /\ LET given == messages[HistoryObject(t)]
           recent == RecentHistoryObject(t, given)
           sliced == [messages EXCEPT ![SliceObject(t)] =
                        IF recent = SliceObject(t) THEN RecentHistory(given) ELSE @]
           extended == [sliced EXCEPT ![NewList(t)] =
                          << [role |-> "system", content |-> SystemContent(None)] >>
                          \o sliced[recent]]
       IN  /\ messages' = [extended EXCEPT ![AppendTarget(NewList(t), recent)] =
                             Append(@, [role |-> "user", content |-> TurnMessage(t)])]
           /\ execResult' = [execResult EXCEPT !.recent_history[t] = recent]
    /\ tool_calls_made' = [tool_calls_made EXCEPT ![NewList(t)] = <<>>]
    /\ pc' = [pc EXCEPT ![t] = "SelectingClient"]
    /\ UNCHANGED <<history, response, idx, outcome, exc, requests, tool_rounds,
                   requested, execLog>>

\* chat.py:531 and 83-84: the installed client, or _get_client() up to its
\* test of _client.
SelectClient(t) ==
    /\ pc[t] = "SelectingClient"
    /\ IF execResult.client # None
       THEN /\ execResult' = [execResult EXCEPT !.openai_client[t] = execResult.client]
            /\ pc' = [pc EXCEPT ![t] = "AwaitingModel"]
       ELSE IF execResult._client = None
       THEN /\ pc' = [pc EXCEPT ![t] = "CreatingClient"]
            /\ UNCHANGED execResult
       ELSE /\ execResult' = [execResult EXCEPT !.openai_client[t] = execResult._client]
            /\ pc' = [pc EXCEPT ![t] = "AwaitingModel"]
    /\ UNCHANGED <<history, messages, tool_calls_made, response, idx, outcome, exc,
                   requests, tool_rounds, requested, execLog>>

\* chat.py:85-86: _client = OpenAI(...); return _client
CreateClient(t) ==
    /\ pc[t] = "CreatingClient"
    /\ LET made == OpenAIClient(execResult.constructed + 1)
       IN  execResult' = [execResult EXCEPT !._client = made,
                                            !.constructed = @ + 1,
                                            !.openai_client[t] = made]
    /\ pc' = [pc EXCEPT ![t] = "AwaitingModel"]
    /\ UNCHANGED <<history, messages, tool_calls_made, response, idx, outcome, exc,
                   requests, tool_rounds, requested, execLog>>

\* chat.py:536-573 in the turn: one request and what the turn does with the
\* response up to the for loop.
TurnModelRequest(t) ==
    /\ pc[t] = "AwaitingModel"
    /\ \E resp \in TurnResponses(t, Len(requested[t])) :
        /\ requests' = [requests EXCEPT ![t] = @ + 1]
        /\ response' = [response EXCEPT ![t] = resp]
        /\ IF IsFinal(resp)
           THEN /\ pc' = [pc EXCEPT ![t] = "Done"]
                /\ outcome' = [outcome EXCEPT
                                 ![t] = ChatOutcome(resp, tool_calls_made[NewList(t)])]
                /\ UNCHANGED <<messages, idx, execLog>>
           ELSE /\ messages' =
                     [messages EXCEPT
                        ![AppendTarget(NewList(t), execResult.recent_history[t])] =
                            Append(@, AssistantMessage(resp))]
                /\ execLog' = [execLog EXCEPT ![t] = Append(@, AssistantMessage(resp))]
                /\ idx' = [idx EXCEPT ![t] = 1]
                /\ pc' = [pc EXCEPT ![t] = "ExecutingTools"]
                /\ UNCHANGED outcome
    /\ UNCHANGED <<history, tool_calls_made, exc, tool_rounds, requested, execResult>>

\* chat.py:576-604 in the turn: one pass of the for loop.
TurnToolCall(t) ==
    /\ pc[t] = "ExecutingTools"
    /\ LET tool_call == CurrentToolCall(response[t], idx[t])
           tool_name == tool_call.function.name
           tool_args == json_loads(tool_call.function.arguments).value
       IN  \E behaviour \in Behaviours(tool_name) :
             LET eff == execute_tool(tool_name, tool_args, behaviour)
                 record == ToolCallRecord(tool_name, tool_args, eff)
                 message == ToolMessage(tool_call, ToolResult(eff))
             IN  /\ tool_calls_made' = [tool_calls_made EXCEPT
                                          ![NewList(t)] = Append(@, record)]
                 /\ requested' = [requested EXCEPT ![t] = Append(@, record)]
                 /\ messages' =
                      [messages EXCEPT
                         ![AppendTarget(NewList(t), execResult.recent_history[t])] =
                             Append(@, message)]
                 /\ execLog' = [execLog EXCEPT ![t] = Append(@, message)]
                 /\ IF idx[t] < Len(response[t].tool_calls)
                    THEN idx' = [idx EXCEPT ![t] = @ + 1] /\ pc' = pc
                    ELSE idx' = [idx EXCEPT ![t] = 0]
                         /\ pc' = [pc EXCEPT ![t] = "AwaitingModel"]
    /\ UNCHANGED <<history, response, outcome, exc, requests, tool_rounds, execResult>>

NextConc ==
    \E t \in Turns :
        \/ Begin(t)
        \/ SelectClient(t)
        \/ CreateClient(t)
        \/ TurnModelRequest(t)
        \/ TurnToolCall(t)

SpecConc == InitConc /\ [][NextConc]_vars

\* C21: two chat() turns that interleave do not share their lists: after
\* every step, the message list of each started turn is its own initial
\* list followed by exactly the messages that turn appended, and its
\* tool-call log is exactly the records that turn appended; no step changes
\* TOOL_NAMES or the installed client, and the only module attribute a step
\* writes is the lazily constructed _client.
C21_TurnsIsolated ==
    [][ /\ \A t \in Turns :
             pc'[t] # "NotStarted" =>
                /\ messages'[NewList(t)] =
                     InitialMessages(history'[t], TurnMessage(t), None) \o execLog'[t]
                /\ tool_calls_made'[NewList(t)] = requested'[t]
        /\ execResult'.TOOL_NAMES = execResult.TOOL_NAMES
        /\ execResult'.client = execResult.client
        /\ execResult'.TOOL_NAMES = TOOL_NAMES ]_vars

\* Both turns are inside their for loops with one call executed each, and
\* two clients were constructed by the race on _client.
C21_Witness ==
    /\ \A t \in Turns :
         /\ pc[t] = "ExecutingTools"
         /\ Len(tool_calls_made[NewList(t)]) = 1
    /\ execResult.constructed = 2

----
\* Further properties of chat().

\* C22: a response that signals "stop" and lists tool calls ends chat() on
\* that response: the step that receives it leaves the transcript, the
\* tool-call log and the executions as they were (no assistant message, no
\* tool message, no record, no execute_tool call), chat() is left, and no
\* step follows once chat() is left.
C22_StopWithToolCallsTerminates ==
    [][ /\ ~(pc \in {"Done", "Raised"})
        /\ (ResponseArrived /\ response'.finish_reason = "stop"
                            /\ response'.tool_calls # <<>>)
             => /\ pc' \in {"Done", "Raised"}
                /\ messages' = messages
                /\ tool_calls_made' = tool_calls_made
                /\ execLog' = execLog ]_vars

\* chat() returned on a "stop" response listing tool calls, after a round
\* that did execute one.
C22_Witness ==
    /\ pc = "Done"
    /\ response.finish_reason = "stop"
    /\ response.tool_calls # <<>>
    /\ Len(tool_calls_made) = 1
    /\ outcome.tool_calls = tool_calls_made

----
\* Further properties of _truncate_result.

\* The first k characters of s: none when k is not positive, all of s when
\* s has fewer.
FirstChars(s, k) ==
    IF k <= 0 THEN "" ELSE IF k >= Len(s) THEN s ELSE SubSeq(s, 1, k)

ToolMessageFor(id) ==
    messages[CHOOSE j \in DOMAIN messages :
                IsToolMessage(messages[j]) /\ messages[j].tool_call_id = id]

\* C24: every step keeps the records made so far as they are, and a step in
\* which execute_tool answered a call with a value appends a record holding
\* that value whole and a tool message, under the id of the call, whose
\* content is _truncate_result of that value.
C24_RecordKeepsFullResult ==
    [][ /\ Len(tool_calls_made') >= Len(tool_calls_made)
        /\ SubSeq(tool_calls_made', 1, Len(tool_calls_made)) = tool_calls_made
        /\ (Len(execLog') = Len(execLog) + 1 /\ ~Last(execLog').effect.raised) =>
              /\ Len(tool_calls_made') = Len(tool_calls_made) + 1
              /\ "result" \in DOMAIN Last(tool_calls_made')
              /\ Last(tool_calls_made').result = Last(execLog').effect.value
              /\ Last(messages').role = "tool"
              /\ Last(messages').tool_call_id = Last(execLog').id
              /\ Last(messages').content =
                    _truncate_result(Last(execLog').effect.value,
                                     MAX_TOOL_RESULT_LENGTH) ]_vars

\* chat() returned a record with the whole list of 6 items, longer than
\* MAX_TOOL_RESULT_LENGTH, while the model was sent the cut encoding.
C24_Witness ==
    /\ pc = "Done"
    /\ Len(outcome.tool_calls) = 2
    /\ ~execLog[1].effect.raised
    /\ outcome.tool_calls[1].result = List6
    /\ EncodingLen(List6) > MAX_TOOL_RESULT_LENGTH
    /\ Len(ToolMessageFor("call_1").content) < EncodingLen(List6)

\* The messages of msgs after its first n.
After(msgs, n) == SubSeq(msgs, n + 1, Len(msgs))

\* C25: the transcript only grows, one message per step, and whenever
\* chat() is about to submit a further request, the list is the one of the
\* previous request followed by exactly one assistant message (the previous
\* response) and one tool message for each tool call of that response; the
\* length of the previous request's list is what the first execution of the
\* round saw, less the assistant message.
C25_AppendOnly ==
    [][ /\ \/ messages' = messages
           \/ /\ Len(messages') = Len(messages) + 1
              /\ SubSeq(messages', 1, Len(messages)) = messages
        /\ (pc' = "AwaitingModel" /\ requests' > 0) =>
              LET calls == response'.tool_calls
                  n == Len(calls)
                  L == Len(messages') - n - 1
                  added == After(messages', L)
              IN  /\ L >= Len(InitialMessages(history, UserMessage, None))
                  /\ added[1] = AssistantMessage(response')
                  /\ \A j \in 2..(n + 1) : IsToolMessage(added[j])
                  /\ { added[j].tool_call_id : j \in 2..(n + 1) }
                        = { calls[j].id : j \in 1..n }
                  /\ \E k \in DOMAIN execLog' :
                        /\ execLog'[k].id = calls[1].id
                        /\ execLog'[k].round = requests'
                        /\ Len(execLog'[k].transcript) = L + 1 ]_vars

\* Before its third request chat() holds a transcript of two rounds: the
\* initial list, then an assistant message and a tool message, twice.
C25_Witness ==
    /\ pc = "AwaitingModel"
    /\ requests = 2
    /\ Len(messages) = Len(InitialMessages(history, UserMessage, None)) + 4
    /\ CarriesToolCalls(messages[Len(messages) - 3])
    /\ CarriesToolCalls(messages[Len(messages) - 1])

----
\* The docstring parsing of _function_to_openai_tool, chat.py:372-387, line
\* by line. execResult holds the locals: lines (doc.split("\n")), the
\* position i of the for loop, in_args and param_descriptions.

\* The longest docstring, in lines.
MaxDocLines == 4

\* line.strip(), for lines whose only whitespace is the blank
RECURSIVE Strip(_)
Strip(s) ==
    IF Len(s) > 0 /\ SubSeq(s, 1, 1) = " " THEN Strip(SubSeq(s, 2, Len(s)))
    ELSE IF Len(s) > 0 /\ SubSeq(s, Len(s), Len(s)) = " "
    THEN Strip(SubSeq(s, 1, Len(s) - 1))
    ELSE s

\* line.startswith("Args:")
StartsWithArgs(line) == Len(line) >= 5 /\ SubSeq(line, 1, 5) = "Args:"

\* ":" in line
HasColon(line) == \E k \in 1..Len(line) : SubSeq(line, k, k) = ":"

\* line.split(":", 1), for a line with a colon: the text before the first
\* colon and the text after it
SplitOnce(line) ==
    LET k == CHOOSE k \in 1..Len(line) :
                /\ SubSeq(line, k, k) = ":"
                /\ \A h \in 1..(k - 1) : SubSeq(line, h, h) # ":"
    IN  << SubSeq(line, 1, k - 1), SubSeq(line, k + 1, Len(line)) >>

\* param_descriptions[name] = desc
SetDescription(param_descriptions, name, desc) ==
    [n \in DOMAIN param_descriptions \cup {name} |->
        IF n = name THEN desc ELSE param_descriptions[n]]

\* A loop body in which a blank line ends the section.
ParseDocLine_blank_ends(in_args, param_descriptions, raw) ==
    LET line == Strip(raw)
    IN  IF StartsWithArgs(line)
        THEN [in_args |-> TRUE, param_descriptions |-> param_descriptions]
        ELSE IF in_args /\ line # "" /\ HasColon(line)
        THEN [in_args |-> in_args,
              param_descriptions |->
                  SetDescription(param_descriptions,
                                 Strip(SplitOnce(line)[1]), Strip(SplitOnce(line)[2]))]
        ELSE [in_args |-> FALSE, param_descriptions |-> param_descriptions]

\* chat.py:376-387: the body of the for loop, for one line
ParseDocLine(in_args, param_descriptions, raw) ==
    LET line == Strip(raw)
    IN  IF StartsWithArgs(line)
        THEN [in_args |-> TRUE, param_descriptions |-> param_descriptions]
        ELSE IF in_args /\ line # "" /\ HasColon(line)
        THEN [in_args |-> in_args,
              param_descriptions |->
                  SetDescription(param_descriptions,
                                 Strip(SplitOnce(line)[1]), Strip(SplitOnce(line)[2]))]
        ELSE IF in_args /\ line = ""
        THEN [in_args |-> in_args, param_descriptions |-> param_descriptions]
        ELSE IF in_args /\ ~HasColon(line)
        THEN [in_args |-> FALSE, param_descriptions |-> param_descriptions]
        ELSE [in_args |-> in_args, param_descriptions |-> param_descriptions]

\* The lines docstrings are made of: those of select_feature
\* (chat.py:223-232) and a parameter line of list_assets (main.py:150).
DocLineChoices ==
    { "",
      "    Args:",
      "        feature_id: The ID of the feature to select (from the drawn features context)",
      "    Returns:",
      "        Confirmation of selection",
      "        status: Filter by status ('active', 'archived')" }

\* The docstrings, split in lines: at most one "Args:" line, as in every
\* docstring of the repository.
DocChoices ==
    { d \in UNION { [1..n -> DocLineChoices] : n \in 1..MaxDocLines } :
        Cardinality({ k \in DOMAIN d : StartsWithArgs(Strip(d[k])) }) <= 1 }

InitDoc ==
    /\ pc = "ParsingDoc"
    /\ \E d \in DocChoices :
         execResult = [lines |-> d, i |-> 1, in_args |-> FALSE,
                       param_descriptions |-> [n \in {} |-> ""]]
    /\ history = <<>>
    /\ messages = <<>>
    /\ tool_calls_made = <<>>
    /\ response = None
    /\ idx = 0
    /\ outcome = None
    /\ exc = None
    /\ requests = 0
    /\ tool_rounds = 0
    /\ requested = <<>>
    /\ execLog = <<>>

\* One pass of the for loop of chat.py:376; after the last line the
\* descriptions are complete.
ParseLine ==
    /\ pc = "ParsingDoc"
    /\ LET after == ParseDocLine(execResult.in_args, execResult.param_descriptions,
                                 execResult.lines[execResult.i])
       IN  execResult' = [execResult EXCEPT
                             !.in_args = after.in_args,
                             !.param_descriptions = after.param_descriptions,
                             !.i = @ + 1]
    /\ pc' = IF execResult.i = Len(execResult.lines) THEN "ParsedDoc" ELSE pc
    /\ UNCHANGED <<history, messages, tool_calls_made, response, idx, outcome, exc,
                   requests, tool_rounds, requested, execLog>>

SpecDoc == InitDoc /\ [][ParseLine]_vars

\* The name and the description a line of the name: description shape gives.
NameOf(raw) == Strip(SplitOnce(Strip(raw))[1])
DescriptionOf(raw) == Strip(SplitOnce(Strip(raw))[2])

\* A line of the name: description shape.
HasShape(raw) == Strip(raw) # "" /\ HasColon(Strip(raw))

\* The descriptions the lines at the positions ks give; of two lines with
\* one name the later one counts.
DescriptionsFrom(lines, ks) ==
    [n \in { NameOf(lines[k]) : k \in ks } |->
        DescriptionOf(lines[CHOOSE k \in ks :
                              /\ NameOf(lines[k]) = n
                              /\ \A h \in ks : NameOf(lines[h]) = n => h <= k])]

\* The positions of the lines starting with "Args:".
ArgsLines(lines) == { a \in DOMAIN lines : StartsWithArgs(Strip(lines[a])) }

----
\* _function_to_openai_tool(name, func), chat.py:367-433, called on its own
\* for every callable of the module: the loop over the parameters, then the
\* return. execResult holds the locals as in get_tool_definitions, and the
\* tool returned.

InitSchema ==
    /\ pc = "ConvertingTool"
    /\ \E func \in ModuleCallables :
         execResult = [tools |-> <<>>, i |-> 1, func |-> func, properties |-> <<>>,
                       required |-> <<>>, j |-> 1]
    /\ history = <<>>
    /\ messages = <<>>
    /\ tool_calls_made = <<>>
    /\ response = None
    /\ idx = 0
    /\ outcome = None
    /\ exc = None
    /\ requests = 0
    /\ tool_rounds = 0
    /\ requested = <<>>
    /\ execLog = <<>>

\* chat.py:422-433: the tool is returned.
ReturnTool ==
    /\ pc = "ConvertingTool"
    /\ execResult.j > Len(Parameters(execResult.func))
    /\ execResult' =
            [execResult EXCEPT
                !.tools = <<OpenAITool(execResult.func, execResult.properties,
                                       execResult.required)>>]
    /\ pc' = "Converted"
    /\ UNCHANGED <<history, messages, tool_calls_made, response, idx, outcome, exc,
                   requests, tool_rounds, requested, execLog>>

NextSchema == AddParameter \/ ReturnTool

SpecSchema == InitSchema /\ [][NextSchema]_vars

\* The schema types of the declared types.
TypeTable ==
    { <<"int", "integer">>, <<"float", "number">>, <<"bool", "boolean">>,
      <<"str", "string">>, <<"list", "array">>, <<"dict", "object">> }

\* C27: in the tool built for a callable, each parameter's type is the
\* schema type of its declared type, and "string" when the annotation is
\* missing or any other; a parameter has an items descriptor, {type:
\* object}, exactly when its type is "array".
C27_TypeMapping ==
    pc = "Converted" =>
        LET func == execResult.func
            properties == execResult.tools[1].function.parameters.properties
        IN  /\ Len(properties) = Len(Parameters(func))
            /\ \A m \in DOMAIN properties :
                 LET annotation == Annotations(func)[m]
                     schema == properties[m].schema
                 IN  /\ properties[m].name = Parameters(func)[m]
                     /\ \A p \in TypeTable : p[1] = annotation => schema.type = p[2]
                     /\ (\A p \in TypeTable : p[1] # annotation) => schema.type = "string"
                     /\ ("items" \in DOMAIN schema) <=> (schema.type = "array")
                     /\ ("items" \in DOMAIN schema) => schema.items = [type |-> "object"]

\* The tool built for chat() itself: message is a string, and history and
\* context, declared Optional[...], are strings too, without items.
C27_Witness ==
    /\ pc = "Converted"
    /\ execResult.func = "chat"
    /\ LET properties == execResult.tools[1].function.parameters.properties
       IN  /\ Len(properties) = 3
           /\ properties[2] = [name |-> "history", schema |-> [type |-> "string"]]
           /\ properties[3] = [name |-> "context", schema |-> [type |-> "string"]]

----
\* C28: no drawing tool is a name of TOOL_NAMES, the names the tool schema
\* is built from, and a requested call of a drawing tool gets an error
\* record and an error tool message for its id that say the tool is
\* unknown, while no callable is invoked for it.
C28_DrawingToolsRejected ==
    [][ /\ \A k \in DOMAIN TOOL_NAMES : TOOL_NAMES[k] \notin DrawingTools
        /\ (pc = "ExecutingTools"
            /\ response.tool_calls[idx].function.name \in DrawingTools) =>
              LET name == response.tool_calls[idx].function.name
                  text == "Unknown tool: " \o name
              IN  /\ Len(tool_calls_made') = Len(tool_calls_made) + 1
                  /\ "error" \in DOMAIN Last(tool_calls_made')
                  /\ Last(tool_calls_made').name = name
                  /\ Last(tool_calls_made').error = text
                  /\ Len(messages') = Len(messages) + 1
                  /\ IsToolMessage(Last(messages'))
                  /\ Last(messages').tool_call_id = response.tool_calls[idx].id
                  /\ Last(messages').content = json_dumps(JDict(<<"error">>, <<JStr(text)>>))
                  /\ Len(execLog') = Len(execLog) + 1
                  /\ Last(execLog').effect.invoked = <<>>
      ]_vars

----
\* C29: chat() does not change the list its caller passed as history: at
\* every step of a turn, through all its tool rounds and after it returned,
\* the caller's list holds what it held when chat() was called, whether the
\* history was sliced or, having MAX_HISTORY_MESSAGES entries or fewer, used
\* as it is.
C29_HistoryUntouched ==
    \A t \in Turns : messages[HistoryObject(t)] = history[t]

\* A turn returned after two tool calls with a history of two messages that
\* recent_history referred to without slicing, and the transcript holds that
\* history.
C29_Witness ==
    \E t \in Turns :
        /\ pc[t] = "Done"
        /\ Len(outcome[t].tool_calls) = 2
        /\ Len(history[t]) = 2
        /\ execResult.recent_history[t] = HistoryObject(t)
        /\ SubSeq(messages[NewList(t)], 2, 3) = history[t]

----
\* move_asset, main.py:721-787, step by step: the lookup of the destination,
\* the lookup of the asset, the creation of the movement log. execResult
\* holds the arguments and the locals, execLog the calls of _api_call made
\* so far (the request sent and the value returned), outcome the value
\* returned and exc the exception that left move_asset.

\* main.py:8
CLIENT_URL == "http://localhost:8080"

\* datetime.utcnow().isoformat() at the time of the call (main.py:338).
UtcNow == "2026-01-01T12:00:00"

\* d.get(k, default), for a dict d
PyGet(d, k, default) == IF HasKey(d, k) THEN Get(d, k) ELSE default

\* v.get(k1, {}).get(k2, {}) ... .get(kn, default): the value, or the
\* AttributeError of the first .get on a value that is no dict.
RECURSIVE GetPath(_, _, _)
GetPath(v, path, default) ==
    IF ~IsDict(v)
    THEN [raised |-> TRUE, value |-> None,
          error |-> "'" \o TypeName(v) \o "' object has no attribute 'get'"]
    ELSE IF Len(path) = 1
    THEN [raised |-> FALSE, value |-> PyGet(v, path[1], default), error |-> ""]
    ELSE GetPath(PyGet(v, path[1], EmptyDict), Tail(path), default)

\* bool(v) is False
Falsy(v) ==
    CASE v.t = "null" -> TRUE
      [] v.t = "bool" -> ~v.b
      [] v.t = "int"  -> v.n = 0
      [] v.t = "str"  -> v.s = ""
      [] v.t = "list" -> v.items = <<>>
      [] v.t = "dict" -> v.keys = <<>>

\* f"{v}" for a str or an int
Format(v) == IF v.t = "str" THEN v.s ELSE IF v.t = "int" THEN ToString(v.n) ELSE json_dumps(v)

\* A test that takes every lookup for a success.
NotSuccess_never(result) == FALSE

\* main.py:743 and 754: not result.get("success")
NotSuccess(result) == Falsy(PyGet(result, "success", None))

\* main.py:91-112, for the resource type "log": the result with its link
\* and message.
_add_link_to_response(result, resource_type, resource_id, extra_path) ==
    IF NotSuccess(result) THEN result
    ELSE LET link == CLIENT_URL \o "/records/logs/" \o extra_path \o "/" \o Format(resource_id)
         IN  DictSet(DictSet(result, "link", JStr(link)),
                     "message", JStr("Created successfully. View at: " \o link))

\* main.py:311-358: the value create_log returns or the AttributeError it
\* raises, and the request it sent.
create_log(log_type, name, status, notes, asset_ids, from_location_id, to_location_id, reply) ==
    LET a1 == JDict(<<"name", "status", "log_type", "timestamp">>,
                    <<JStr(name), JStr(status), JStr(log_type), JStr(UtcNow)>>)
        a2 == IF ~Falsy(notes) THEN DictSet(a1, "notes", notes) ELSE a1
        a3 == IF from_location_id # None
              THEN DictSet(a2, "from_location_id", from_location_id) ELSE a2
        a4 == IF to_location_id # None
              THEN DictSet(a3, "to_location_id", to_location_id) ELSE a3
        attributes == IF ~Falsy(asset_ids) THEN DictSet(a4, "asset_ids", asset_ids) ELSE a4
        data == JDict(<<"data">>,
                      << JDict(<<"type", "attributes">>, <<JStr("log"), attributes>>) >>)
        called == _api_call("logs/" \o log_type, "POST", None, data, reply)
        result == called.value
        resource_id == GetPath(result, <<"data", "data", "id">>, None)
    IN  IF NotSuccess(result)
        THEN [raised |-> FALSE, error |-> "", value |-> result, sent |-> called.sent]
        ELSE IF resource_id.raised
        THEN [raised |-> TRUE, error |-> resource_id.error, value |-> None,
              sent |-> called.sent]
        ELSE IF ~Falsy(resource_id.value)
        THEN [raised |-> FALSE, error |-> "",
              value |-> _add_link_to_response(result, "log", resource_id.value, log_type),
              sent |-> called.sent]
        ELSE [raised |-> FALSE, error |-> "", value |-> result, sent |-> called.sent]

\* The answers of the farm API to a request for one resource: those of
\* HttpReplies, and a JSON:API document of a resource with a name.
ResourceDocument(id, type, name, current_location_id) ==
    HttpResponse(200, "OK", TRUE,
                 JDict(<<"data">>,
                       << JDict(<<"id", "type", "attributes">>,
                                << JStr(id), JStr(type),
                                   JDict(<<"name", "current_location_id">>,
                                         <<JStr(name), current_location_id>>) >>) >>),
                 "")
MoveReplies ==
    HttpReplies
    \cup { ResourceDocument("3", "location", "North Pasture", None),
           ResourceDocument("7", "asset", "Bessie", JInt(2)) }

\* The arguments of the call.
MoveArguments ==
    { [asset_id |-> 7, to_location_id |-> 3, asset_type |-> "animal",
       from_location_id |-> f, notes |-> n] :
        f \in {None, JInt(2)}, n \in {None, JStr("Moved after the vet check")} }

InitMove ==
    /\ pc = "LookingUpLocation"
    /\ \E args \in MoveArguments :
         execResult = [args |-> args, location_name |-> None, asset_name |-> None,
                       from_location_id |-> args.from_location_id]
    /\ history = <<>>
    /\ messages = <<>>
    /\ tool_calls_made = <<>>
    /\ response = None
    /\ idx = 0
    /\ outcome = None
    /\ exc = None
    /\ requests = 0
    /\ tool_rounds = 0
    /\ requested = <<>>
    /\ execLog = <<>>

\* main.py:741-750: the lookup of the destination location
LookupLocation ==
    /\ pc = "LookingUpLocation"
    /\ \E reply \in MoveReplies :
        LET args == execResult.args
            called == _api_call("locations/" \o ToString(args.to_location_id),
                                "GET", None, None, reply)
            location_result == called.value
            location_name ==
                GetPath(location_result, <<"data", "data", "attributes", "name">>,
                        JStr("location " \o ToString(args.to_location_id)))
        IN  /\ execLog' = Append(execLog, [sent |-> called.sent[1], result |-> location_result])
            /\ IF NotSuccess(location_result)
               THEN /\ pc' = "Returned"
                    /\ outcome' =
                         JDict(<<"success", "error", "error_code", "available_action">>,
                               << JBool(FALSE),
                                  JStr("Location " \o ToString(args.to_location_id)
                                       \o " not found. Please use list_locations() to see available locations."),
                                  JStr("LOCATION_NOT_FOUND"),
                                  JStr("Call list_locations() to get valid location IDs") >>)
                    /\ UNCHANGED <<exc, execResult>>
               ELSE IF location_name.raised
               THEN /\ pc' = "Raised"
                    /\ exc' = Exception("AttributeError", location_name.error, "main.py:750")
                    /\ UNCHANGED <<outcome, execResult>>
               ELSE /\ pc' = "LookingUpAsset"
                    /\ execResult' = [execResult EXCEPT !.location_name = location_name.value]
                    /\ UNCHANGED <<outcome, exc>>
    /\ UNCHANGED <<history, messages, tool_calls_made, response, idx, requests,
                   tool_rounds, requested>>

\* main.py:752-765: the lookup of the asset, and the source location taken
\* from it when none was given
LookupAsset ==
    /\ pc = "LookingUpAsset"
    /\ \E reply \in MoveReplies :
        LET args == execResult.args
            called == _api_call("assets/" \o args.asset_type \o "/" \o ToString(args.asset_id),
                                "GET", None, None, reply)
            asset_result == called.value
            asset_name ==
                GetPath(asset_result, <<"data", "data", "attributes", "name">>,
                        JStr("asset " \o ToString(args.asset_id)))
            current ==
                GetPath(asset_result,
                        <<"data", "data", "attributes", "current_location_id">>, None)
        IN  /\ execLog' = Append(execLog, [sent |-> called.sent[1], result |-> asset_result])
            /\ IF NotSuccess(asset_result)
               THEN /\ pc' = "Returned"
                    /\ outcome' =
                         JDict(<<"success", "error", "error_code", "available_action">>,
                               << JBool(FALSE),
                                  JStr("Asset " \o ToString(args.asset_id) \o " of type '"
                                       \o args.asset_type \o "' not found."),
                                  JStr("ASSET_NOT_FOUND"),
                                  JStr("Call list_assets(asset_type='" \o args.asset_type
                                       \o "') to get valid asset IDs") >>)
                    /\ UNCHANGED <<exc, execResult>>
               ELSE IF asset_name.raised
               THEN /\ pc' = "Raised"
                    /\ exc' = Exception("AttributeError", asset_name.error, "main.py:761")
                    /\ UNCHANGED <<outcome, execResult>>
               ELSE /\ pc' = "CreatingLog"
                    /\ execResult' =
                         [execResult EXCEPT
                            !.asset_name = asset_name.value,
                            !.from_location_id =
                                IF @ = None THEN current.value ELSE @]
                    /\ UNCHANGED <<outcome, exc>>
    /\ UNCHANGED <<history, messages, tool_calls_made, response, idx, requests,
                   tool_rounds, requested>>

\* main.py:767-787: the movement log is created and the result returned
CreateMovementLog ==
    /\ pc = "CreatingLog"
    /\ \E reply \in MoveReplies :
        LET args == execResult.args
            asset_name == Format(execResult.asset_name)
            location_name == Format(execResult.location_name)
            created == create_log("movement", asset_name \o " moved to " \o location_name,
                                  "done", args.notes, JList(<<JInt(args.asset_id)>>),
                                  execResult.from_location_id, JInt(args.to_location_id),
                                  reply)
            log_result == created.value
            log_id == GetPath(log_result, <<"data", "data", "id">>, None)
        IN  /\ execLog' = Append(execLog,
                                 [sent |-> created.sent[1],
                                  result |-> IF created.raised THEN None ELSE log_result])
            /\ IF created.raised
               THEN /\ pc' = "Raised"
                    /\ exc' = Exception("AttributeError", created.error, "main.py:354")
                    /\ UNCHANGED outcome
               ELSE IF NotSuccess(log_result)
               THEN /\ pc' = "Returned"
                    /\ outcome' = log_result
                    /\ UNCHANGED exc
               ELSE /\ pc' = "Returned"
                    /\ outcome' =
                         JDict(<<"success", "message", "link", "log">>,
                               << JBool(TRUE),
                                  JStr("Successfully moved " \o asset_name \o " to "
                                       \o location_name),
                                  IF ~Falsy(log_id.value)
                                  THEN JStr(CLIENT_URL \o "/records/logs/movement/"
                                            \o Format(log_id.value))
                                  ELSE None,
                                  log_result >>)
                    /\ UNCHANGED exc
    /\ UNCHANGED <<history, messages, tool_calls_made, response, idx, requests,
                   tool_rounds, requested, execResult>>

NextMove == LookupLocation \/ LookupAsset \/ CreateMovementLog

SpecMove == InitMove /\ [][NextMove]_vars

\* The calls of _api_call made so far that ask for a log to be created.
LogCreations == { k \in DOMAIN execLog : execLog[k].sent.method = "POST" }

\* The request is a GET of the resource.
LooksUp(call, resource) ==
    call.sent.method = "GET" /\ call.sent.url = FARM_API_URL \o "/" \o resource

\* The call of _api_call reported success.
Succeeded(call) ==
    HasKey(call.result, "success") /\ Get(call.result, "success") = JBool(TRUE)

\* C30: a log is created only as the third request, after the lookup of the
\* destination and then the lookup of the asset, both answered with
\* success; a failed location lookup is the only request and
\* LOCATION_NOT_FOUND is returned; a failed asset lookup is the last request
\* and ASSET_NOT_FOUND is returned; at most one log creation is requested.
C30_LogOnlyAfterLookups ==
    /\ Cardinality(LogCreations) <= 1
    /\ \A k \in LogCreations :
         /\ k = 3
         /\ LooksUp(execLog[1], "locations/3") /\ Succeeded(execLog[1])
         /\ LooksUp(execLog[2], "assets/animal/7") /\ Succeeded(execLog[2])
    /\ (Len(execLog) >= 1 /\ ~Succeeded(execLog[1])) =>
         /\ Len(execLog) = 1
         /\ pc = "Returned"
         /\ Get(outcome, "error_code") = JStr("LOCATION_NOT_FOUND")
         /\ Get(outcome, "success") = JBool(FALSE)
    /\ (Len(execLog) >= 2 /\ ~Succeeded(execLog[2])) =>
         /\ Len(execLog) = 2
         /\ LogCreations = {}
         /\ pc = "Returned"
         /\ Get(outcome, "error_code") = JStr("ASSET_NOT_FOUND")
         /\ Get(outcome, "success") = JBool(FALSE)

\* The asset was moved: both lookups succeeded, one log was created and
\* move_asset returned success with the link of the log.
C30_Witness ==
    /\ pc = "Returned"
    /\ Len(execLog) = 3
    /\ LogCreations = {3}
    /\ Get(outcome, "success") = JBool(TRUE)
    /\ Get(outcome, "message") = JStr("Successfully moved Bessie to North Pasture")
    /\ Get(outcome, "link") = JStr("http://localhost:8080/records/logs/movement/1")

====
